---- MODULE Spec2Model ----
(***************************************************************************)
(* Model of the news aggregation pipeline of api/crawl.py: the relevance   *)
(* classifier, the recency filter, the deduplicating crawl loop and the    *)
(* final sort.  Text is modelled as sequences of one-character strings so  *)
(* that substring tests, case folding and title normalisation are computed *)
(* as the code computes them.                                              *)
(***************************************************************************)
EXTENDS Integers, Sequences, FiniteSets, TLC

(***************************************************************************)
(* Strings                                                                 *)
(***************************************************************************)

(* str.lower() on the ASCII letters *)
LowerMap ==
  "A" :> "a" @@ "B" :> "b" @@ "C" :> "c" @@ "D" :> "d" @@ "E" :> "e" @@ "F" :> "f" @@ "G" :> "g" @@ "H" :> "h" @@ "I" :> "i" @@ "J" :> "j" @@ "K" :> "k" @@ "L" :> "l" @@ "M" :> "m" @@
  "N" :> "n" @@ "O" :> "o" @@ "P" :> "p" @@ "Q" :> "q" @@ "R" :> "r" @@ "S" :> "s" @@ "T" :> "t" @@ "U" :> "u" @@ "V" :> "v" @@ "W" :> "w" @@ "X" :> "x" @@ "Y" :> "y" @@ "Z" :> "z"

LowerChar(c) == IF c \in DOMAIN LowerMap THEN LowerMap[c] ELSE c

Lower(s) == [i \in 1..Len(s) |-> LowerChar(s[i])]

(* the character class a-z0-9 of normalize_title *)
AlnumChars ==
  {"a","b","c","d","e","f","g","h","i","j","k","l","m","n","o","p","q","r","s",
   "t","u","v","w","x","y","z","0","1","2","3","4","5","6","7","8","9"}

(* Python's `term in text` on strings *)
Contains(text, term) ==
  \E i \in 1..(Len(text) - Len(term) + 1) :
     \A j \in 1..Len(term) : text[i + j - 1] = term[j]

(* any(term in text for term in terms) *)
ContainsAny(text, terms) == \E term \in terms : Contains(text, term)

StripNonAlnum(s) == SelectSeq(s, LAMBDA c : c \in AlnumChars)

(* re.sub(r'[^a-z0-9]', '', title.lower()) *)
normalize_title(title) == StripNonAlnum(Lower(title))

(***************************************************************************)
(* clean_html                                                              *)
(***************************************************************************)

(* the character U+00A0 *)
NBSP == "\\xa0"

(* the characters matched by \s *)
Whitespace == {" ", "\t", "\n", "\r", NBSP}

StartsWith(s, p) == Len(p) <= Len(s) /\ SubSeq(s, 1, Len(p)) = p

Drop(s, n) == SubSeq(s, n + 1, Len(s))

(* position of the first occurrence of p in s, or 0 *)
Find(s, p) ==
  LET hits == {i \in 1..(Len(s) - Len(p) + 1) : SubSeq(s, i, i + Len(p) - 1) = p}
  IN  IF hits = {} THEN 0 ELSE CHOOSE i \in hits : \A j \in hits : i <= j

(* the least element of a non-empty set of positions *)
First(hits) == CHOOSE i \in hits : \A j \in hits : i <= j

(* str.replace(old, new): leftmost non-overlapping occurrences *)
RECURSIVE Replace(_, _, _)
Replace(s, old, new) ==
  LET k == Find(s, old)
  IN  IF k = 0 THEN s
      ELSE SubSeq(s, 1, k - 1) \o new \o Replace(Drop(s, k - 1 + Len(old)), old, new)

E_NBSP == <<"&","n","b","s","p",";">>

(* the named character references of html.unescape that occur in feeds;    *)
(* each is also recognised without its semicolon                           *)
Entities ==
  << [name |-> <<"n","b","s","p">>, char |-> NBSP],
     [name |-> <<"q","u","o","t">>, char |-> "\""],
     [name |-> <<"a","m","p">>, char |-> "&"],
     [name |-> <<"l","t">>, char |-> "<"],
     [name |-> <<"g","t">>, char |-> ">"] >>

(* index of the entity whose name follows the "&" at the head of s, or 0 *)
EntityAt(s) ==
  LET hits == {i \in DOMAIN Entities : StartsWith(Tail(s), Entities[i].name)}
  IN  IF hits = {} THEN 0 ELSE First(hits)

(* html.unescape: one pass, the decoded text is not scanned again *)
RECURSIVE unescape(_)
unescape(s) ==
  LET hits == {i \in DOMAIN s : s[i] = "&" /\ EntityAt(Drop(s, i - 1)) # 0}
  IN  IF hits = {} THEN s
      ELSE LET k == First(hits)
               e == Entities[EntityAt(Drop(s, k - 1))]
               rest == Drop(s, k + Len(e.name))
           IN  SubSeq(s, 1, k - 1) \o <<e.char>>
                 \o unescape(IF rest # <<>> /\ Head(rest) = ";" THEN Tail(rest) ELSE rest)

CDATA_OPEN == <<"<","!","[","C","D","A","T","A","[">>

CDATA_CLOSE == <<"]","]",">">>

(* re.sub(r'<!\[CDATA\[(.*?)\]\]>', r'\1', text, flags=re.DOTALL) *)
RECURSIVE UnwrapCdata(_)
UnwrapCdata(s) ==
  LET k == Find(s, CDATA_OPEN)
      body == Drop(s, k - 1 + Len(CDATA_OPEN))
      c == Find(body, CDATA_CLOSE)
  IN  IF k = 0 \/ c = 0 THEN s
      ELSE SubSeq(s, 1, k - 1) \o SubSeq(body, 1, c - 1)
             \o UnwrapCdata(Drop(body, c - 1 + Len(CDATA_CLOSE)))

(* re.sub(r'<[^>]+>', ' ', text) *)
RECURSIVE RemoveTags(_)
RemoveTags(s) ==
  LET hits == {i \in DOMAIN s : /\ s[i] = "<"
                                /\ i + 1 <= Len(s) /\ s[i + 1] # ">"
                                /\ \E j \in (i + 2)..Len(s) : s[j] = ">"}
  IN  IF hits = {} THEN s
      ELSE LET k == First(hits)
               close == First({j \in (k + 2)..Len(s) : s[j] = ">"})
           IN  SubSeq(s, 1, k - 1) \o <<" ">> \o RemoveTags(Drop(s, close))

(* re.sub(r'\s+', ' ', text): the first character of every run of white    *)
(* space is kept, as a space                                               *)
CollapseWhitespace(s) ==
  LET marked == [i \in DOMAIN s |->
                   [char |-> IF s[i] \in Whitespace THEN " " ELSE s[i],
                    keep |-> \/ s[i] \notin Whitespace
                             \/ i = 1
                             \/ s[i - 1] \notin Whitespace]]
      kept == SelectSeq(marked, LAMBDA x : x.keep)
  IN  [i \in DOMAIN kept |-> kept[i].char]

RECURSIVE LStrip(_)
LStrip(s) == IF s # <<>> /\ Head(s) \in Whitespace THEN LStrip(Tail(s)) ELSE s

RECURSIVE RStrip(_)
RStrip(s) == IF s # <<>> /\ s[Len(s)] \in Whitespace THEN RStrip(SubSeq(s, 1, Len(s) - 1)) ELSE s

(* str.strip() *)
Strip(s) == RStrip(LStrip(s))

(* clean_html without the replacement of line 24 *)
clean_html_SingleNbspPass(text) ==
  IF text = <<>> THEN <<>>
  ELSE LET t1 == Replace(text, E_NBSP, <<" ">>)
           t2 == unescape(t1)
           t3 == Replace(t2, <<NBSP>>, <<" ">>)
           t5 == UnwrapCdata(t3)
           t6 == RemoveTags(t5)
       IN  Strip(CollapseWhitespace(t6))

(* clean_html with the tags removed after the white space is collapsed *)
clean_html_TagsLast(text) ==
  IF text = <<>> THEN <<>>
  ELSE LET t1 == Replace(text, E_NBSP, <<" ">>)
           t2 == unescape(t1)
           t3 == Replace(t2, <<NBSP>>, <<" ">>)
           t4 == Replace(t3, E_NBSP, <<" ">>)
           t5 == UnwrapCdata(t4)
       IN  Strip(RemoveTags(CollapseWhitespace(t5)))

clean_html(text) ==
  IF text = <<>> THEN <<>>
  ELSE LET t1 == Replace(text, E_NBSP, <<" ">>)
           t2 == unescape(t1)
           t3 == Replace(t2, <<NBSP>>, <<" ">>)
           t4 == Replace(t3, E_NBSP, <<" ">>)
           t5 == UnwrapCdata(t4)
           t6 == RemoveTags(t5)
       IN  Strip(CollapseWhitespace(t6))

(***************************************************************************)
(* is_relevant: the term lists                                             *)
(***************************************************************************)

(* src/api/crawl.py:101-119 *)
exclude_terms ==
  {
    <<"s","h","o","o","t","i","n","g">>,
    <<"s","h","o","t">>,
    <<"m","u","r","d","e","r">>,
    <<"k","i","l","l","e","d">>,
    <<"h","o","m","i","c","i","d","e">>,
    <<"g","u","n","f","i","r","e">>,
    <<"g","u","n","m","a","n">>,
    <<"a","r","r","e","s","t">>,
    <<"a","r","r","e","s","t","e","d">>,
    <<"c","h","a","r","g","e","d">>,
    <<"c","u","s","t","o","d","y">>,
    <<"s","u","s","p","e","c","t">>,
    <<"i","n","v","e","s","t","i","g","a","t","i","o","n">>,
    <<"s","t","a","n","d","o","f","f">>,
    <<"p","o","l","i","c","e"," ","s","a","y">>,
    <<"s","h","e","r","i","f","f">>,
    <<"d","e","p","u","t","i","e","s">>,
    <<"r","o","b","b","e","r","y">>,
    <<"a","s","s","a","u","l","t">>,
    <<"s","t","a","b","b","i","n","g">>,
    <<"s","t","a","b","b","e","d">>,
    <<"d","r","u","g">>,
    <<"t","r","a","f","f","i","c","k","i","n","g">>,
    <<"c","o","c","a","i","n","e">>,
    <<"h","e","r","o","i","n">>,
    <<"f","e","n","t","a","n","y","l">>,
    <<"m","e","t","h">>,
    <<"m","a","c","h","i","n","e"," ","g","u","n">>,
    <<"w","e","a","p","o","n">>,
    <<"f","i","r","e","a","r","m">>,
    <<"m","i","s","s","i","n","g"," ","p","e","r","s","o","n">>,
    <<"f","o","u","n","d"," ","d","e","a","d">>,
    <<"b","o","d","y"," ","f","o","u","n","d">>,
    <<"t","r","a","f","f","i","c"," ","s","t","o","p">>,
    <<"p","u","l","l","e","d"," ","o","v","e","r">>,
    <<"d","u","i">>,
    <<"d","w","i">>,
    <<"h","o","s","p","i","c","e">>,
    <<"f","u","n","e","r","a","l">>,
    <<"o","b","i","t","u","a","r","y">>,
    <<"d","i","e","d"," ","o","f">>,
    <<"p","a","s","s","e","s"," ","a","w","a","y">>,
    <<"c","a","n","c","e","r">>,
    <<"f","o","o","t","b","a","l","l">>,
    <<"b","a","s","k","e","t","b","a","l","l">>,
    <<"b","a","s","e","b","a","l","l">>,
    <<"s","o","c","c","e","r">>,
    <<"n","f","l">>,
    <<"n","b","a">>,
    <<"n","c","a","a">>,
    <<"g","a","m","e"," ","d","a","y">>,
    <<"t","o","u","c","h","d","o","w","n">>,
    <<"p","l","a","y","o","f","f">>,
    <<"c","o","a","c","h"," ","e","n","t","e","r","s">>,
    <<"e","l","e","c","t","i","o","n">>,
    <<"v","o","t","e">>,
    <<"b","a","l","l","o","t">>,
    <<"c","a","m","p","a","i","g","n">>,
    <<"d","e","m","o","c","r","a","t">>,
    <<"r","e","p","u","b","l","i","c","a","n">>,
    <<"c","o","n","g","r","e","s","s">>,
    <<"s","e","n","a","t","e">>,
    <<"r","e","a","l"," ","e","s","t","a","t","e">>,
    <<"r","e","s","t","a","u","r","a","n","t">>,
    <<"r","e","c","i","p","e">>,
    <<"e","n","t","e","r","t","a","i","n","m","e","n","t">>,
    <<"m","o","v","i","e">>,
    <<"c","o","n","c","e","r","t">>,
    <<"l","i","v","e"," ","c","a","m">>,
    <<"l","i","v","e"," ","l","o","o","k">>,
    <<"p","h","o","t","o","s",":">>,
    <<"v","i","e","w","e","r">>,
    <<"s","h","a","r","e"," ","t","h","e","i","r">>,
    <<"f","u","n"," ","i","n"," ","t","h","e"," ","s","n","o","w">>,
    <<"s","n","o","w"," ","d","a","y",":">>,
    <<"a","f","t","e","r","g","l","o","w">>,
    <<"s","n","o","w"," ","p","h","o","t","o","s">>,
    <<"l","i","v","e"," ","c","a","m","s",":">>,
    <<"p","h","o","t","o"," ","g","a","l","l","e","r","y">>
  }

(* src/api/crawl.py:123-123 *)
override_locations ==
  {
    <<"s","o","u","t","h"," ","c","a","r","o","l","i","n","a">>,
    <<" ","s","c"," ">>,
    <<"c","a","r","o","l","i","n","a">>
  }

(* src/api/crawl.py:126-134 *)
location_terms ==
  {
    <<"s","o","u","t","h"," ","c","a","r","o","l","i","n","a">>,
    <<" ","s","c"," ">>,
    <<"c","o","l","u","m","b","i","a">>,
    <<"g","r","e","e","n","v","i","l","l","e">>,
    <<"c","h","a","r","l","e","s","t","o","n">>,
    <<"s","p","a","r","t","a","n","b","u","r","g">>,
    <<"u","p","s","t","a","t","e">>,
    <<"m","i","d","l","a","n","d","s">>,
    <<"l","o","w","c","o","u","n","t","r","y">>,
    <<"p","e","e"," ","d","e","e">>,
    <<"a","n","d","e","r","s","o","n">>,
    <<"f","l","o","r","e","n","c","e">>,
    <<"m","y","r","t","l","e"," ","b","e","a","c","h">>,
    <<"r","o","c","k"," ","h","i","l","l">>,
    <<"s","u","m","t","e","r">>,
    <<"a","i","k","e","n">>,
    <<"o","r","a","n","g","e","b","u","r","g">>,
    <<"b","e","a","u","f","o","r","t">>,
    <<"h","i","l","t","o","n"," ","h","e","a","d">>,
    <<"l","e","x","i","n","g","t","o","n">>,
    <<"r","i","c","h","l","a","n","d">>,
    <<"h","o","r","r","y">>,
    <<"y","o","r","k">>,
    <<"b","e","r","k","e","l","e","y">>,
    <<"d","o","r","c","h","e","s","t","e","r">>,
    <<"p","i","c","k","e","n","s">>,
    <<"o","c","o","n","e","e">>,
    <<"l","a","u","r","e","n","s">>,
    <<"n","e","w","b","e","r","r","y">>,
    <<"s","a","l","u","d","a">>,
    <<"e","d","g","e","f","i","e","l","d">>,
    <<"a","b","b","e","v","i","l","l","e">>,
    <<"g","r","a","n","d"," ","s","t","r","a","n","d">>,
    <<"s","a","n","t","e","e">>,
    <<"l","a","k","e"," ","m","u","r","r","a","y">>,
    <<"c","l","e","m","s","o","n">>,
    <<"c","o","n","w","a","y">>
  }

(* the topic list without its 'red cross' entry *)
weather_terms_NoRedCross ==
  {
    <<"i","c","e"," ","s","t","o","r","m">>,
    <<"w","i","n","t","e","r"," ","s","t","o","r","m">>,
    <<"w","i","n","t","e","r"," ","w","e","a","t","h","e","r">>,
    <<"f","r","e","e","z","i","n","g"," ","r","a","i","n">>,
    <<"f","r","e","e","z","i","n","g"," ","t","e","m","p","e","r","a","t","u","r","e">>,
    <<"s","l","e","e","t">>,
    <<"p","o","w","e","r"," ","o","u","t","a","g","e">>,
    <<"o","u","t","a","g","e">>,
    <<"w","i","t","h","o","u","t"," ","p","o","w","e","r">>,
    <<"s","h","e","l","t","e","r">>,
    <<"w","a","r","m","i","n","g"," ","c","e","n","t","e","r">>,
    <<"e","x","t","r","e","m","e"," ","c","o","l","d">>,
    <<"b","i","t","t","e","r"," ","c","o","l","d">>,
    <<"c","o","l","d"," ","w","a","r","n","i","n","g">>,
    <<"c","o","l","d"," ","t","e","m","p","e","r","a","t","u","r","e">>,
    <<"d","a","n","g","e","r","o","u","s"," ","c","o","l","d">>,
    <<"d","a","n","g","e","r","o","u","s","l","y"," ","c","o","l","d">>,
    <<"w","i","n","d"," ","c","h","i","l","l">>,
    <<"d","u","k","e"," ","e","n","e","r","g","y">>,
    <<"d","o","m","i","n","i","o","n"," ","e","n","e","r","g","y">>,
    <<"s","a","n","t","e","e"," ","c","o","o","p","e","r">>,
    <<"s","c","h","o","o","l"," ","c","l","o","s">>,
    <<"s","c","h","o","o","l"," ","d","e","l","a","y">>,
    <<"e","-","l","e","a","r","n","i","n","g">>,
    <<"e","l","e","a","r","n","i","n","g">>,
    <<"s","t","a","t","e"," ","o","f"," ","e","m","e","r","g","e","n","c","y">>,
    <<"g","o","v","e","r","n","o","r">>,
    <<"m","c","m","a","s","t","e","r">>,
    <<"r","o","a","d"," ","c","l","o","s">>,
    <<"b","r","i","d","g","e"," ","c","l","o","s">>,
    <<"i","c","y"," ","r","o","a","d">>,
    <<"h","a","z","a","r","d","o","u","s"," ","t","r","a","v","e","l">>,
    <<"s","t","a","y"," ","o","f","f"," ","t","h","e"," ","r","o","a","d">>,
    <<"i","m","p","a","s","s","i","b","l","e">>,
    <<"s","n","o","w">>,
    <<"n","a","t","i","o","n","a","l"," ","g","u","a","r","d">>,
    <<"h","y","p","o","t","h","e","r","m","i","a">>
  }

(* src/api/crawl.py:138-151 *)
weather_terms ==
  {
    <<"i","c","e"," ","s","t","o","r","m">>,
    <<"w","i","n","t","e","r"," ","s","t","o","r","m">>,
    <<"w","i","n","t","e","r"," ","w","e","a","t","h","e","r">>,
    <<"f","r","e","e","z","i","n","g"," ","r","a","i","n">>,
    <<"f","r","e","e","z","i","n","g"," ","t","e","m","p","e","r","a","t","u","r","e">>,
    <<"s","l","e","e","t">>,
    <<"p","o","w","e","r"," ","o","u","t","a","g","e">>,
    <<"o","u","t","a","g","e">>,
    <<"w","i","t","h","o","u","t"," ","p","o","w","e","r">>,
    <<"s","h","e","l","t","e","r">>,
    <<"w","a","r","m","i","n","g"," ","c","e","n","t","e","r">>,
    <<"e","x","t","r","e","m","e"," ","c","o","l","d">>,
    <<"b","i","t","t","e","r"," ","c","o","l","d">>,
    <<"c","o","l","d"," ","w","a","r","n","i","n","g">>,
    <<"c","o","l","d"," ","t","e","m","p","e","r","a","t","u","r","e">>,
    <<"d","a","n","g","e","r","o","u","s"," ","c","o","l","d">>,
    <<"d","a","n","g","e","r","o","u","s","l","y"," ","c","o","l","d">>,
    <<"w","i","n","d"," ","c","h","i","l","l">>,
    <<"d","u","k","e"," ","e","n","e","r","g","y">>,
    <<"d","o","m","i","n","i","o","n"," ","e","n","e","r","g","y">>,
    <<"s","a","n","t","e","e"," ","c","o","o","p","e","r">>,
    <<"s","c","h","o","o","l"," ","c","l","o","s">>,
    <<"s","c","h","o","o","l"," ","d","e","l","a","y">>,
    <<"e","-","l","e","a","r","n","i","n","g">>,
    <<"e","l","e","a","r","n","i","n","g">>,
    <<"s","t","a","t","e"," ","o","f"," ","e","m","e","r","g","e","n","c","y">>,
    <<"g","o","v","e","r","n","o","r">>,
    <<"m","c","m","a","s","t","e","r">>,
    <<"r","o","a","d"," ","c","l","o","s">>,
    <<"b","r","i","d","g","e"," ","c","l","o","s">>,
    <<"i","c","y"," ","r","o","a","d">>,
    <<"h","a","z","a","r","d","o","u","s"," ","t","r","a","v","e","l">>,
    <<"s","t","a","y"," ","o","f","f"," ","t","h","e"," ","r","o","a","d">>,
    <<"i","m","p","a","s","s","i","b","l","e">>,
    <<"s","n","o","w">>,
    <<"r","e","d"," ","c","r","o","s","s">>,
    <<"n","a","t","i","o","n","a","l"," ","g","u","a","r","d">>,
    <<"h","y","p","o","t","h","e","r","m","i","a">>
  }

RED_CROSS == <<"r","e","d"," ","c","r","o","s","s">>

NORTH_CAROLINA == <<"n","o","r","t","h"," ","c","a","r","o","l","i","n","a">>

SOUTH_CAROLINA == <<"s","o","u","t","h"," ","c","a","r","o","l","i","n","a">>

(* f"{title} {description}".lower() *)
RelevanceText(title, description) == Lower(title \o <<" ">> \o description)

(* is_relevant with the override tested before the exclusion list *)
is_relevant_OverrideFirst(title, description) ==
  LET text == RelevanceText(title, description)
      location_match == ContainsAny(text, location_terms)
      nc_only == Contains(text, NORTH_CAROLINA) /\ ~Contains(text, SOUTH_CAROLINA)
      weather_match == ContainsAny(text, weather_terms)
  IN  IF Contains(text, RED_CROSS) /\ ContainsAny(text, override_locations) THEN TRUE
      ELSE IF ContainsAny(text, exclude_terms) THEN FALSE
      ELSE IF nc_only THEN FALSE
      ELSE location_match /\ weather_match

(* is_relevant without the north-carolina rule *)
is_relevant_NoNcRule(title, description) ==
  LET text == RelevanceText(title, description)
      location_match == ContainsAny(text, location_terms)
      weather_match == ContainsAny(text, weather_terms)
  IN  IF ContainsAny(text, exclude_terms) THEN FALSE
      ELSE IF Contains(text, RED_CROSS) /\ ContainsAny(text, override_locations) THEN TRUE
      ELSE location_match /\ weather_match

(* is_relevant with the gates joined by "or" instead of "and" *)
is_relevant_EitherGate(title, description) ==
  LET text == RelevanceText(title, description)
      location_match == ContainsAny(text, location_terms)
      nc_only == Contains(text, NORTH_CAROLINA) /\ ~Contains(text, SOUTH_CAROLINA)
      weather_match == ContainsAny(text, weather_terms)
  IN  IF ContainsAny(text, exclude_terms) THEN FALSE
      ELSE IF Contains(text, RED_CROSS) /\ ContainsAny(text, override_locations) THEN TRUE
      ELSE IF nc_only THEN FALSE
      ELSE location_match \/ weather_match

is_relevant(title, description) ==
  LET text == RelevanceText(title, description)
      location_match == ContainsAny(text, location_terms)
      nc_only == Contains(text, NORTH_CAROLINA) /\ ~Contains(text, SOUTH_CAROLINA)
      weather_match == ContainsAny(text, weather_terms)
  IN  IF ContainsAny(text, exclude_terms) THEN FALSE
      ELSE IF Contains(text, RED_CROSS) /\ ContainsAny(text, override_locations) THEN TRUE
      ELSE IF nc_only THEN FALSE
      ELSE location_match /\ weather_match


(***************************************************************************)
(* Dates.  A timestamp is a number of hours since 2024-01-01T00:00.  A     *)
(* published string is a record: the layout of its date-time part, the     *)
(* timestamp that part denotes, and the whitespace-separated tokens that   *)
(* follow it.  The empty string has layout "empty".                        *)
(***************************************************************************)

(* first hour of each calendar year (2024 is a leap year) *)
YearStart == (2024 :> 0) @@ (2025 :> 8784) @@ (2026 :> 17544) @@ (2027 :> 26304) @@ (2028 :> 35064)

(* the %Y field of a timestamp *)
YearOf(t) == CHOOSE y \in 2024..2027 : YearStart[y] <= t /\ t < YearStart[y + 1]

(* datetime.min, 0001-01-01T00:00: 738885 days before 2024-01-01 *)
DATETIME_MIN == -(738885 * 24)

(* the layouts strptime is tried with: '%a, %d %b %Y %H:%M:%S',            *)
(* '%Y-%m-%dT%H:%M:%S', '%Y-%m-%d %H:%M:%S', '%d %b %Y %H:%M:%S'           *)
FORMATS == <<"rfc822", "isoT", "sql", "dmy">>

(* layouts that no format matches: 'January 27, 2026' and '2 hours ago' *)
OtherLayouts == {"long", "ago"}

(* layouts that spell the year of the timestamp *)
DatedLayouts == {FORMATS[i] : i \in DOMAIN FORMATS} \cup {"long"}

TZ_ABBREVS == {"GMT", "UTC", "EST", "EDT", "PST", "PDT", "CST", "CDT"}

(* tokens matching [+-]\d{4} *)
NumericOffsets == {"+0000", "-0500"}

EMPTY_PUB == [layout |-> "empty", t |-> 0, suffix |-> <<>>]

Front(s) == SubSeq(s, 1, Len(s) - 1)

Last(s) == s[Len(s)]

NoDate == [ok |-> FALSE, t |-> 0]

(* parse_date without the removal of the numeric offset *)
parse_date_KeepOffset(pub) ==
  IF pub = EMPTY_PUB THEN NoDate
  ELSE LET s1 == IF pub.suffix # <<>> /\ Last(pub.suffix) \in TZ_ABBREVS
                 THEN Front(pub.suffix) ELSE pub.suffix
       IN  IF s1 = <<>> /\ (\E i \in DOMAIN FORMATS : FORMATS[i] = pub.layout)
           THEN [ok |-> TRUE, t |-> pub.t]
           ELSE NoDate

parse_date(pub) ==
  IF pub = EMPTY_PUB THEN NoDate
  ELSE LET s1 == IF pub.suffix # <<>> /\ Last(pub.suffix) \in TZ_ABBREVS
                 THEN Front(pub.suffix) ELSE pub.suffix
           s2 == IF s1 # <<>> /\ Last(s1) \in NumericOffsets
                 THEN Front(s1) ELSE s1
       IN  IF s2 = <<>> /\ (\E i \in DOMAIN FORMATS : FORMATS[i] = pub.layout)
           THEN [ok |-> TRUE, t |-> pub.t]
           ELSE NoDate

(* the year literal of the fallback *)
FALLBACK_YEAR == 2026

(* Python's `'2026' in pub`: the digits of a year occur in the string *)
PubContainsYear(pub, year) == pub.layout \in DatedLayouts /\ YearOf(pub.t) = year

HOURS_48 == 48

DAYS_7 == 7

(* is_recent_enough with an exclusive cutoff *)
is_recent_enough_Exclusive(article, now) ==
  LET text == Lower(article.title \o <<" ">> \o article.summary)
      is_red_cross == Contains(text, RED_CROSS)
      cutoff == IF is_red_cross THEN now - DAYS_7 * 24 ELSE now - HOURS_48
      pub_date == parse_date(article.published)
  IN  IF pub_date.ok THEN pub_date.t > cutoff
      ELSE PubContainsYear(article.published, FALLBACK_YEAR)

(* is_recent_enough letting an article without a date through *)
is_recent_enough_KeepUndated(article, now) ==
  LET text == Lower(article.title \o <<" ">> \o article.summary)
      is_red_cross == Contains(text, RED_CROSS)
      cutoff == IF is_red_cross THEN now - DAYS_7 * 24 ELSE now - HOURS_48
      pub_date == parse_date(article.published)
  IN  IF pub_date.ok THEN pub_date.t >= cutoff
      ELSE article.published = EMPTY_PUB
           \/ PubContainsYear(article.published, FALLBACK_YEAR)

is_recent_enough(article, now) ==
  LET text == Lower(article.title \o <<" ">> \o article.summary)
      is_red_cross == Contains(text, RED_CROSS)
      cutoff == IF is_red_cross THEN now - DAYS_7 * 24 ELSE now - HOURS_48
      pub_date == parse_date(article.published)
  IN  IF pub_date.ok THEN pub_date.t >= cutoff
      ELSE IF is_red_cross THEN PubContainsYear(article.published, FALLBACK_YEAR)
      ELSE PubContainsYear(article.published, FALLBACK_YEAR)

(***************************************************************************)
(* parse_rss_simple.  A feed document is a sequence of blocks; a block has *)
(* the tag that encloses it ("item" or "entry") and the raw bodies of its  *)
(* title, link, pubDate/published and description tags (empty when the tag *)
(* is missing).                                                            *)
(***************************************************************************)

MAX_BLOCKS == 15

SUMMARY_CAP == 300

Min(a, b) == IF a <= b THEN a ELSE b

Take(s, n) == SubSeq(s, 1, Min(n, Len(s)))

(* the slice taken from the raw description, before clean_html *)
ParseBlock_CapBeforeClean(block) ==
  [title |-> clean_html(block.title),
   link |-> UnwrapCdata(Strip(block.link)),
   published |-> block.pubDate,
   description |-> clean_html(Take(block.description, SUMMARY_CAP))]

(* re.sub(r'<!\[CDATA\[(.*?)\]\]>', r'\1', link): no line breaks in links *)
ParseBlock(block) ==
  [title |-> clean_html(block.title),
   link |-> UnwrapCdata(Strip(block.link)),
   published |-> block.pubDate,
   description |-> Take(clean_html(block.description), SUMMARY_CAP)]

(* the blocks of one tag, in document order *)
FindBlocks(xml_content, tag) == SelectSeq(xml_content, LAMBDA b : b.tag = tag)

(* the loop over the blocks leaving at the first block without title or link *)
RECURSIVE ParseBlocks_StopAtInvalid(_)
ParseBlocks_StopAtInvalid(blocks) ==
  IF blocks = <<>> THEN <<>>
  ELSE LET item == ParseBlock(Head(blocks))
       IN  IF item.title # <<>> /\ item.link # <<>>
           THEN <<item>> \o ParseBlocks_StopAtInvalid(Tail(blocks))
           ELSE <<>>

RECURSIVE ParseBlocks(_)
ParseBlocks(blocks) ==
  IF blocks = <<>> THEN <<>>
  ELSE LET item == ParseBlock(Head(blocks))
       IN  (IF item.title # <<>> /\ item.link # <<>> THEN <<item>> ELSE <<>>)
           \o ParseBlocks(Tail(blocks))

(* parse_rss_simple with the cap applied to the entries, not to the blocks *)
parse_rss_simple_CapAfterFilter(xml_content) ==
  IF xml_content = <<>> THEN <<>>
  ELSE LET items_found == FindBlocks(xml_content, "item")
           matches == IF items_found # <<>> THEN items_found
                      ELSE FindBlocks(xml_content, "entry")
       IN  Take(ParseBlocks(matches), MAX_BLOCKS)

(* parse_rss_simple taking the blocks of both tags *)
parse_rss_simple_BothTags(xml_content) ==
  IF xml_content = <<>> THEN <<>>
  ELSE LET matches == FindBlocks(xml_content, "item") \o FindBlocks(xml_content, "entry")
       IN  ParseBlocks(Take(matches, MAX_BLOCKS))

parse_rss_simple(xml_content) ==
  IF xml_content = <<>> THEN <<>>
  ELSE LET items_found == FindBlocks(xml_content, "item")
           matches == IF items_found # <<>> THEN items_found
                      ELSE FindBlocks(xml_content, "entry")
       IN  ParseBlocks(Take(matches, MAX_BLOCKS))

(***************************************************************************)
(* crawl_news: the accumulator and the final filter and sort               *)
(***************************************************************************)

(* hashlib.md5(url.encode()).hexdigest()[:12] on the urls of the model *)
MD5_12 ==
  (<<"u","/","1">> :> "0f7b5781033c") @@
  (<<"u","/","2">> :> "957a294e0e2c") @@
  (<<"u","/","3">> :> "270b478350c7") @@
  (<<"u","/","4">> :> "c03ae4144305") @@
  (<<"u","/","5">> :> "afcc6633e723") @@
  (<<"u","/","6">> :> "631e970e47c6")

generate_id(url) == MD5_12[url]

(* the duplicate test with the raw title in place of the normalised one *)
IsDuplicate_RawTitle(item, urls, titles) ==
  item.link \in urls \/ item.title \in titles

(* the duplicate test on the url alone *)
IsDuplicate_UrlOnly(item, urls, titles) ==
  item.link \in urls

(* the duplicate test on the title alone *)
IsDuplicate_TitleOnly(item, urls, titles) ==
  normalize_title(item.title) \in titles

(* url in seen_urls or norm_title in seen_titles *)
IsDuplicate(item, urls, titles) ==
  item.link \in urls \/ normalize_title(item.title) \in titles

NewArticle(item, source) ==
  [id |-> generate_id(item.link),
   title |-> item.title,
   url |-> item.link,
   source |-> source,
   published |-> item.published,
   summary |-> item.description]

EmptyAcc == [articles |-> <<>>, seen_urls |-> {}, seen_titles |-> {}]

(* the body of the loop recording the url but not the title *)
ProcessItem_UrlOnly(acc, item, source) ==
  IF IsDuplicate(item, acc.seen_urls, acc.seen_titles) THEN acc
  ELSE IF ~is_relevant(item.title, item.description) THEN acc
  ELSE [articles |-> Append(acc.articles, NewArticle(item, source)),
        seen_urls |-> acc.seen_urls \cup {item.link},
        seen_titles |-> acc.seen_titles]

(* the body of the loop without the two add() calls *)
ProcessItem_NoRecord(acc, item, source) ==
  IF IsDuplicate(item, acc.seen_urls, acc.seen_titles) THEN acc
  ELSE IF ~is_relevant(item.title, item.description) THEN acc
  ELSE [articles |-> Append(acc.articles, NewArticle(item, source)),
        seen_urls |-> acc.seen_urls,
        seen_titles |-> acc.seen_titles]

(* the body of the loop over the items of one feed *)
ProcessItem(acc, item, source) ==
  IF IsDuplicate(item, acc.seen_urls, acc.seen_titles) THEN acc
  ELSE IF ~is_relevant(item.title, item.description) THEN acc
  ELSE [articles |-> Append(acc.articles, NewArticle(item, source)),
        seen_urls |-> acc.seen_urls \cup {item.link},
        seen_titles |-> acc.seen_titles \cup {normalize_title(item.title)}]

RECURSIVE ProcessFeed(_, _, _)
ProcessFeed(acc, feed_items, source) ==
  IF feed_items = <<>> THEN acc
  ELSE ProcessFeed(ProcessItem(acc, Head(feed_items), source), Tail(feed_items), source)

(* get_sort_date with datetime.max for an unparseable date *)
get_sort_date_Max(article) ==
  LET pub_date == parse_date(article.published)
  IN  IF pub_date.ok THEN pub_date.t ELSE -DATETIME_MIN

get_sort_date(article) ==
  LET pub_date == parse_date(article.published)
  IN  IF pub_date.ok THEN pub_date.t ELSE DATETIME_MIN

(* the insertion placing an article before those of the same key *)
RECURSIVE InsertDesc_BeforeEqual(_, _)
InsertDesc_BeforeEqual(sorted, a) ==
  IF sorted = <<>> THEN <<a>>
  ELSE IF get_sort_date(Head(sorted)) > get_sort_date(a)
       THEN <<Head(sorted)>> \o InsertDesc_BeforeEqual(Tail(sorted), a)
       ELSE <<a>> \o sorted

(* list.sort(key=get_sort_date, reverse=True): stable, largest key first *)
RECURSIVE InsertDesc(_, _)
InsertDesc(sorted, a) ==
  IF sorted = <<>> THEN <<a>>
  ELSE IF get_sort_date(Head(sorted)) >= get_sort_date(a)
       THEN <<Head(sorted)>> \o InsertDesc(Tail(sorted), a)
       ELSE <<a>> \o sorted

RECURSIVE SortDesc(_)
SortDesc(s) ==
  IF s = <<>> THEN <<>>
  ELSE InsertDesc(SortDesc(SubSeq(s, 1, Len(s) - 1)), s[Len(s)])

(* the result with the titles of the returned articles in lower case *)
BuildResult_LowerTitles(collected, t_now) ==
  LET filtered_articles == SortDesc(SelectSeq(collected, LAMBDA a : is_recent_enough(a, t_now)))
  IN  [returned |-> TRUE,
       metadata |-> [crawled_at |-> t_now,
                     total_articles |-> Len(filtered_articles),
                     total_crawled |-> Len(collected)],
       articles |-> [i \in DOMAIN filtered_articles |->
                       [filtered_articles[i] EXCEPT !.title = Lower(@)]]]

(* the result with both counts taken after the filter *)
BuildResult_CountFiltered(collected, t_now) ==
  LET filtered_articles == SortDesc(SelectSeq(collected, LAMBDA a : is_recent_enough(a, t_now)))
  IN  [returned |-> TRUE,
       metadata |-> [crawled_at |-> t_now,
                     total_articles |-> Len(filtered_articles),
                     total_crawled |-> Len(filtered_articles)],
       articles |-> filtered_articles]

(* lines 250-266 of crawl_news *)
BuildResult(collected, t_now) ==
  LET filtered_articles == SortDesc(SelectSeq(collected, LAMBDA a : is_recent_enough(a, t_now)))
  IN  [returned |-> TRUE,
       metadata |-> [crawled_at |-> t_now,
                     total_articles |-> Len(filtered_articles),
                     total_crawled |-> Len(collected)],
       articles |-> filtered_articles]

NoResult == [returned |-> FALSE]

(* no request is being handled *)
HttpOff == [pc |-> "off", buffer |-> <<>>, sent |-> <<>>, exc |-> "none"]

(* no call of the function *)
NoCall == [called |-> FALSE]

(* the loop variable before the first iteration *)
NoItem == [title |-> <<>>, link |-> <<>>, published |-> EMPTY_PUB, description |-> <<>>]

(***************************************************************************)
(* State                                                                   *)
(***************************************************************************)

VARIABLES
  pc,           \* crawl_news: "fetch" (at the head of a source loop), "items"
                \* (inside the loop over the items of a feed), "done", "off"
  source_i,     \* index of the source the loops are at
  content,      \* what fetch_url returned to this iteration: "unavailable"
                \* (None), "empty" (''), "text" (a document, kept in items)
                \* or "unset" before the first fetch
  items,        \* the items of the current feed not yet looked at
  item,         \* the loop variable: the item looked at last
  articles,     \* the accumulated articles
  seen_urls,
  seen_titles,
  now,          \* datetime.now() of line 250, 0 before
  result,       \* the value returned by crawl_news
  shadow,       \* history: the accumulator of the same run over only the
                \* sources whose fetch delivered content
  pool,         \* the blocks the feeds of this run may hold
  http,         \* handler.do_GET: its position and the responses sent
  rel,          \* a call of is_relevant: its arguments and its verdict
  rec,          \* a call of is_recent_enough: its arguments and its verdict
  fch,          \* a call of fetch_url: its argument, the network, its outcome
  prs,          \* a call of parse_rss_simple: its argument and its result
  cln,          \* a call of clean_html: its argument and its result
  ddp,          \* passes of the deduplication loop over one candidate list
  post          \* summary.handler.do_POST: the request, the outcome of the
                \* call of the API and the summary

crawl_vars == <<pc, source_i, content, items, item, articles, seen_urls, seen_titles, now, result, shadow, pool, http>>

(* the variables of the calls of single functions *)
call_vars == <<rel, rec, fch, prs, cln, ddp, post>>

vars == <<pc, source_i, content, items, item, articles, seen_urls, seen_titles, now, result, shadow, pool, http, rel, rec, fch, prs, cln, ddp, post>>

(* no run of crawl_news *)
CrawlOff ==
  /\ pc = "off"
  /\ source_i = 0
  /\ content = "unset"
  /\ items = <<>>
  /\ item = NoItem
  /\ articles = <<>>
  /\ seen_urls = {}
  /\ seen_titles = {}
  /\ now = 0
  /\ result = NoResult
  /\ shadow = EmptyAcc
  /\ pool = {}
  /\ http = HttpOff

(***************************************************************************)
(* Inputs of is_relevant: titles are up to MaxWords words of Vocabulary    *)
(* joined by single spaces, descriptions are empty or one word.            *)
(***************************************************************************)

MaxWords == 3

W_RedCross == <<"R","e","d"," ","C","r","o","s","s">>

W_arrested == <<"a","r","r","e","s","t","e","d">>

W_Greenville == <<"G","r","e","e","n","v","i","l","l","e">>

W_SC == <<"S","C">>

W_NorthCarolina == <<"N","o","r","t","h"," ","C","a","r","o","l","i","n","a">>

W_SouthCarolina == <<"S","o","u","t","h"," ","C","a","r","o","l","i","n","a">>

W_IceStorm == <<"i","c","e"," ","s","t","o","r","m">>

W_office == <<"o","f","f","i","c","e",",">>

Vocabulary ==
  {W_RedCross, W_arrested, W_Greenville, W_SC, W_NorthCarolina,
   W_SouthCarolina, W_IceStorm, W_office}

RECURSIVE JoinWords(_)
JoinWords(ws) ==
  IF Len(ws) = 0 THEN <<>>
  ELSE IF Len(ws) = 1 THEN ws[1]
  ELSE ws[1] \o <<" ">> \o JoinWords(Tail(ws))

(* the example texts of the specification's testable properties *)
Ex_Arrested == <<"R","e","d"," ","C","r","o","s","s"," ","v","o","l","u","n","t","e","e","r"," ","a","r","r","e","s","t","e","d"," ","i","n"," ","C","o","l","u","m","b","i","a"," ","S","C"," ","i","c","e"," ","s","t","o","r","m">>

Ex_Office == <<"R","e","d"," ","C","r","o","s","s"," ","o","p","e","n","s"," ","n","e","w"," ","o","f","f","i","c","e",","," ","G","r","e","e","n","v","i","l","l","e"," ","S","C">>

Ex_NorthOnly == <<"N","o","r","t","h"," ","C","a","r","o","l","i","n","a"," ","i","c","e"," ","s","t","o","r","m"," ","c","l","o","s","e","s"," ","s","c","h","o","o","l","s">>

Ex_NorthAndSouth == <<"N","o","r","t","h"," ","a","n","d"," ","S","o","u","t","h"," ","C","a","r","o","l","i","n","a"," ","h","i","t"," ","b","y"," ","i","c","e"," ","s","t","o","r","m">>

ExampleTitles == {Ex_Arrested, Ex_Office, Ex_NorthOnly, Ex_NorthAndSouth}

Titles ==
  ExampleTitles \cup
  UNION {{JoinWords(ws) : ws \in [1..n -> Vocabulary]} : n \in 1..MaxWords}

Descriptions == {<<>>} \cup Vocabulary

(***************************************************************************)
(* Inputs of is_recent_enough                                              *)
(***************************************************************************)

MaxSuffix == 2

(* the run of the examples is at 2026-01-27T00:00 *)
NOW_EX == YearStart[2026] + 26 * 24

(* 2026-01-27T00:00, 2026-01-01T12:00, 2027-01-02T00:00 *)
Nows == {NOW_EX, YearStart[2026] + 12, YearStart[2027] + 24}

(* ages in hours around the two windows; -1 is a timestamp in the future *)
Ages == {-1, 47, 48, 49, 167, 168, 169}

(* 2024-01-01T08:00 *)
T_2024_01_01 == YearStart[2024] + 8

PubTimes == {n - a : n \in Nows, a \in Ages} \cup {T_2024_01_01}

SuffixTokens == {"GMT", "BST", "+0000"}

Suffixes == UNION {[1..n -> SuffixTokens] : n \in 0..MaxSuffix}

PubStrings ==
  {EMPTY_PUB} \cup
  [layout : {FORMATS[i] : i \in DOMAIN FORMATS} \cup OtherLayouts,
   t : PubTimes, suffix : Suffixes]

(* "Mon, 01 Jan 2024 08:00:00 GMT" *)
Ex_Pub2024 == [layout |-> "rfc822", t |-> T_2024_01_01, suffix |-> <<"GMT">>]

RecTitles == {W_RedCross, W_IceStorm, <<"R","E","D">>}

RecSummaries == {<<>>, <<"C","r","o","s","s"," ","a","i","d">>, W_RedCross}

RecInputs ==
  [called : {FALSE},
   article : [title : RecTitles, summary : RecSummaries, published : PubStrings],
   now : Nows]

(***************************************************************************)
(* Specification of the relevance classifier                               *)
(***************************************************************************)

RelInputs == [called : {FALSE}, title : Titles, description : Descriptions]

RecIdle == [called |-> FALSE]

RelIdle == [called |-> FALSE]

InitRel ==
  /\ rel \in RelInputs
  /\ rec = RecIdle
  /\ fch = NoCall /\ prs = NoCall /\ cln = NoCall /\ ddp = NoCall
  /\ CrawlOff
  /\ post = NoCall

CallIsRelevant ==
  /\ ~rel.called
  /\ rel' = [called |-> TRUE, title |-> rel.title, description |-> rel.description,
             out |-> is_relevant(rel.title, rel.description)]
  /\ UNCHANGED <<rec, fch, prs, cln, ddp, post, crawl_vars>>

NextRel == CallIsRelevant

SpecRel == InitRel /\ [][NextRel]_vars

(***************************************************************************)
(* Specification of the recency filter                                     *)
(***************************************************************************)

InitRec ==
  /\ rec \in RecInputs
  /\ rel = RelIdle
  /\ fch = NoCall /\ prs = NoCall /\ cln = NoCall /\ ddp = NoCall
  /\ CrawlOff
  /\ post = NoCall

CallIsRecentEnough ==
  /\ ~rec.called
  /\ rec' = [called |-> TRUE, article |-> rec.article, now |-> rec.now,
             out |-> is_recent_enough(rec.article, rec.now)]
  /\ UNCHANGED <<rel, fch, prs, cln, ddp, post, crawl_vars>>

NextRec == CallIsRecentEnough

SpecRec == InitRec /\ [][NextRec]_vars

(***************************************************************************)
(* Inputs of crawl_news: the sources and what their feeds may hold         *)
(***************************************************************************)

NumSearchTerms == 1

NumLocalFeeds == 1

MaxFeedLen == 2

LOCAL_FEED_NAMES ==
  <<"WLTX Columbia",
     "WIS Columbia",
     "WACH Fox Columbia",
     "The State",
     "WYFF Greenville",
     "Fox Carolina",
     "WSPA Spartanburg",
     "Greenville News",
     "WCSC Charleston",
     "WCBD Charleston",
     "Post and Courier",
     "WMBF Myrtle Beach",
     "WBTW Florence",
     "WPDE Myrtle Beach",
     "WRDW Augusta">>

(* the label of each source: the search terms first, then the local feeds *)
SourceLabels ==
  [i \in 1..(NumSearchTerms + NumLocalFeeds) |->
     IF i <= NumSearchTerms THEN "Google News" ELSE LOCAL_FEED_NAMES[i - NumSearchTerms]]

NumSources == NumSearchTerms + NumLocalFeeds

U1 == <<"u","/","1">>

U2 == <<"u","/","2">>

U3 == <<"u","/","3">>

U4 == <<"u","/","4">>

U5 == <<"u","/","5">>

U6 == <<"u","/","6">>

P_47h == [layout |-> "rfc822", t |-> NOW_EX - 47, suffix |-> <<"GMT">>]

P_48h == [layout |-> "isoT", t |-> NOW_EX - 48, suffix |-> <<"+0000">>]

P_100h == [layout |-> "sql", t |-> NOW_EX - 100, suffix |-> <<>>]

P_Long == [layout |-> "long", t |-> NOW_EX - 24, suffix |-> <<>>]

(* an article of 2024 *)
K1 == [tag |-> "item", title |-> <<"I","c","e"," ","s","t","o","r","m"," ","h","i","t","s"," ","C","o","l","u","m","b","i","a">>,
       link |-> U1, pubDate |-> Ex_Pub2024, description |-> <<>>]

(* the story of K1 under another url, its title in another spelling *)
K2 == [tag |-> "item", title |-> <<"I","C","E"," ","S","T","O","R","M"," ","h","i","t","s"," ","<","b",">","C","o","l","u","m","b","i","a","<","/","b",">","!">>,
       link |-> U2, pubDate |-> P_47h, description |-> <<>>]

(* the url of K1 under another title *)
K3 == [tag |-> "item", title |-> <<"R","e","d"," ","C","r","o","s","s"," ","s","h","e","l","t","e","r"," ","S","C">>,
       link |-> CDATA_OPEN \o U1 \o CDATA_CLOSE, pubDate |-> P_100h,
       description |-> <<"o","p","e","n","&","n","b","s","p",";","n","o","w">>]

K4 == [tag |-> "item", title |-> <<"G","r","e","e","n","v","i","l","l","e"," ","s","n","o","w">>,
       link |-> <<" ">> \o U3 \o <<" ">>, pubDate |-> P_48h, description |-> <<>>]

(* not relevant *)
K5 == [tag |-> "item", title |-> <<"G","r","e","e","n","v","i","l","l","e"," ","f","o","o","t","b","a","l","l">>,
       link |-> U4, pubDate |-> P_47h, description |-> <<>>]

(* a date no format matches *)
K6 == [tag |-> "item", title |-> <<"S","u","m","t","e","r"," ","o","u","t","a","g","e">>,
       link |-> U5, pubDate |-> P_Long, description |-> <<>>]

(* an Atom entry without a date *)
K7 == [tag |-> "entry", title |-> <<"Y","o","r","k"," ","s","l","e","e","t">>,
       link |-> U6, pubDate |-> EMPTY_PUB, description |-> <<>>]

(* a block whose title is markup only *)
K8 == [tag |-> "item", title |-> <<"<","b",">">>,
       link |-> U4, pubDate |-> P_47h, description |-> <<>>]

BlockPool == {K1, K2, K3, K4, K5, K6, K7, K8}

(* what fetch_url returns: None, the empty string, or a document *)
Unavailable == [status |-> "unavailable", blocks |-> <<>>]

EmptyContent == [status |-> "empty", blocks |-> <<>>]

(* the documents of up to MaxFeedLen blocks taken from a set of blocks *)
DocumentsOf(blocks) ==
  [status : {"text"},
   blocks : UNION {[1..n -> blocks] : n \in 0..MaxFeedLen}]

Documents == DocumentsOf(BlockPool)

(***************************************************************************)
(* Specification of crawl_news                                             *)
(***************************************************************************)

Init ==
  /\ pc = "fetch"
  /\ source_i = 1
  /\ content = "unset"
  /\ items = <<>>
  /\ item = NoItem
  /\ articles = <<>>
  /\ seen_urls = {}
  /\ seen_titles = {}
  /\ now = 0
  /\ result = NoResult
  /\ shadow = EmptyAcc
  /\ pool = BlockPool
  /\ http = HttpOff
  /\ rel = RelIdle
  /\ rec = RecIdle
  /\ fch = NoCall /\ prs = NoCall /\ cln = NoCall /\ ddp = NoCall
  /\ post = NoCall

Acc == [articles |-> articles, seen_urls |-> seen_urls, seen_titles |-> seen_titles]

(* the same source again after content None or '' *)
AfterFailedFetch_Retry == [pc |-> "fetch", source_i |-> source_i]

(* the position after a source whose content is None or '' *)
AfterFailedFetch_Abort == [pc |-> "fetch", source_i |-> NumSources + 1]

(* `if content:` is false: the loop goes on with the next source *)
AfterFailedFetch == [pc |-> "fetch", source_i |-> source_i + 1]

(* fetch_url returned None or '' *)
FetchUnavailable ==
  /\ pc = "fetch"
  /\ source_i <= NumSources
  /\ \E c \in {Unavailable, EmptyContent} : content' = c.status
  /\ pc' = AfterFailedFetch.pc
  /\ source_i' = AfterFailedFetch.source_i
  /\ UNCHANGED <<items, item, articles, seen_urls, seen_titles, now, result, shadow, pool, http, call_vars>>

(* fetch_url returned a document: it is parsed and the item loop starts *)
FetchContent ==
  /\ pc = "fetch"
  /\ source_i <= NumSources
  /\ \E c \in DocumentsOf(pool) :
       LET parsed == parse_rss_simple(c.blocks)
       IN  /\ content' = c.status
           /\ items' = parsed
           /\ shadow' = ProcessFeed(shadow, parsed, SourceLabels[source_i])
  /\ pc' = "items"
  /\ UNCHANGED <<source_i, item, articles, seen_urls, seen_titles, now, result, pool, http, call_vars>>

(* lines 194-195 and 235-236: the item is a duplicate *)
SkipDuplicate ==
  /\ pc = "items"
  /\ items # <<>>
  /\ item' = Head(items)
  /\ IsDuplicate(Head(items), seen_urls, seen_titles)
  /\ items' = Tail(items)
  /\ UNCHANGED <<pc, source_i, content, articles, seen_urls, seen_titles, now, result, shadow, pool, http, call_vars>>

(* lines 196-197 and 237-238: the item is not relevant *)
SkipIrrelevant ==
  /\ pc = "items"
  /\ items # <<>>
  /\ item' = Head(items)
  /\ ~IsDuplicate(Head(items), seen_urls, seen_titles)
  /\ ~is_relevant(Head(items).title, Head(items).description)
  /\ items' = Tail(items)
  /\ UNCHANGED <<pc, source_i, content, articles, seen_urls, seen_titles, now, result, shadow, pool, http, call_vars>>

(* lines 198-207 and 239-248: the item is accepted *)
AcceptItem ==
  /\ pc = "items"
  /\ items # <<>>
  /\ item' = Head(items)
  /\ ~IsDuplicate(Head(items), seen_urls, seen_titles)
  /\ is_relevant(Head(items).title, Head(items).description)
  /\ LET acc == ProcessItem(Acc, Head(items), SourceLabels[source_i])
     IN  /\ articles' = acc.articles
         /\ seen_urls' = acc.seen_urls
         /\ seen_titles' = acc.seen_titles
  /\ items' = Tail(items)
  /\ UNCHANGED <<pc, source_i, content, now, result, shadow, pool, http, call_vars>>

(* the item loop is exhausted: on to the next source *)
NextSource ==
  /\ pc = "items"
  /\ items = <<>>
  /\ pc' = "fetch"
  /\ source_i' = source_i + 1
  /\ UNCHANGED <<content, items, item, articles, seen_urls, seen_titles, now, result, shadow, pool, http, call_vars>>

(* lines 250-266: both source loops are exhausted *)
FilterAndSort ==
  /\ pc = "fetch"
  /\ source_i > NumSources
  /\ \E t_now \in Nows :
       /\ now' = t_now
       /\ result' = BuildResult(articles, t_now)
  /\ pc' = "done"
  /\ UNCHANGED <<source_i, content, items, item, articles, seen_urls, seen_titles, shadow, pool, http, call_vars>>

Next ==
  \/ FetchUnavailable
  \/ FetchContent
  \/ SkipDuplicate
  \/ SkipIrrelevant
  \/ AcceptItem
  \/ NextSource
  \/ FilterAndSort

Spec == Init /\ [][Next]_vars

(* the position of the run: the statement, the source, the items left *)
position == <<pc, source_i, items>>

(* the run moves on from its position: past a source without content, past *)
(* an item, from an exhausted feed to the next source, from the last       *)
(* source to the return.  These are the steps of Next, except the delivery *)
(* of a document, seen on the position alone; a document is delivered only *)
(* where the fetch can also return nothing.                                *)
Advance ==
  \/ /\ pc = "fetch" /\ source_i <= NumSources
     /\ pc' = "fetch" /\ source_i' = source_i + 1 /\ items' = items
  \/ /\ pc = "items" /\ items # <<>>
     /\ pc' = "items" /\ source_i' = source_i /\ items' = Tail(items)
  \/ /\ pc = "items" /\ items = <<>>
     /\ pc' = "fetch" /\ source_i' = source_i + 1 /\ items' = items
  \/ /\ pc = "fetch" /\ source_i > NumSources
     /\ pc' = "done" /\ source_i' = source_i /\ items' = items

(* the run as the interpreter executes it: it goes on while a statement is *)
(* left, every fetch returning                                             *)
SpecLive == Spec /\ WF_position(Advance)

(***************************************************************************)
(* fetch_url.  A url is its scheme ("" when it has none) and the rest; the *)
(* network answers a request with a body or fails.                         *)
(***************************************************************************)

NetOutcomes == {"ok", "dns", "timeout", "http_error", "tls", "undecodable"}

(* urllib.request.Request(url, ...) of line 53, before the try *)
RequestRaises(url) == url.scheme = ""

fetch_url(url, net) ==
  IF RequestRaises(url)
  THEN [kind |-> "raised", exc |-> "ValueError", value |-> Unavailable]
  ELSE IF net.outcome = "ok" THEN [kind |-> "returned", exc |-> "", value |-> net.body]
  ELSE [kind |-> "returned", exc |-> "", value |-> Unavailable]

FetchUrls ==
  [scheme : {"https", "http", ""},
   rest : {"news.google.com/rss/search", "www.wltx.com/feeds/syndication/rss/news/local", "feed.xml"}]

FetchBodies == {EmptyContent} \cup DocumentsOf({K2})

FchInputs ==
  [called : {FALSE}, url : FetchUrls, net : [outcome : NetOutcomes, body : FetchBodies]]

InitFetch ==
  /\ fch \in FchInputs
  /\ rel = RelIdle /\ rec = RecIdle
  /\ prs = NoCall /\ cln = NoCall /\ ddp = NoCall
  /\ CrawlOff
  /\ post = NoCall

CallFetchUrl ==
  /\ ~fch.called
  /\ fch' = [called |-> TRUE, url |-> fch.url, net |-> fch.net,
             out |-> fetch_url(fch.url, fch.net)]
  /\ UNCHANGED <<rel, rec, prs, cln, ddp, post, crawl_vars>>

NextFetch == CallFetchUrl

SpecFetch == InitFetch /\ [][NextFetch]_vars

(***************************************************************************)
(* Inputs and specification of parse_rss_simple: a document repeats a      *)
(* cycle of one or two blocks up to MaxDocLen times.                       *)
(***************************************************************************)

MaxDocLen == 17

(* a block whose link is white space only *)
K9 == [tag |-> "item", title |-> <<"A","i","k","e","n"," ","s","l","e","e","t">>,
       link |-> <<" ", " ">>, pubDate |-> P_47h, description |-> <<>>]

(* an Atom entry whose link is an empty CDATA section *)
K10 == [tag |-> "entry", title |-> <<"C","o","n","w","a","y"," ","s","n","o","w">>,
        link |-> CDATA_OPEN \o CDATA_CLOSE, pubDate |-> P_48h, description |-> <<>>]

ParsePool == BlockPool \cup {K9, K10}

ParseCycles == UNION {[1..n -> ParsePool] : n \in 1..2}

CycleDoc(cycle, n) == [i \in 1..n |-> cycle[((i - 1) % Len(cycle)) + 1]]

ParseDocs == {CycleDoc(cycle, n) : cycle \in ParseCycles, n \in 0..MaxDocLen}

PrsInputs ==
  [called : {FALSE},
   xml_content : {Unavailable, EmptyContent} \cup [status : {"text"}, blocks : ParseDocs]]

InitParse ==
  /\ prs \in PrsInputs
  /\ rel = RelIdle /\ rec = RecIdle
  /\ fch = NoCall /\ cln = NoCall /\ ddp = NoCall
  /\ CrawlOff
  /\ post = NoCall

CallParseRssSimple ==
  /\ ~prs.called
  /\ prs' = [called |-> TRUE, xml_content |-> prs.xml_content,
             out |-> parse_rss_simple(prs.xml_content.blocks)]
  /\ UNCHANGED <<rel, rec, fch, cln, ddp, post, crawl_vars>>

NextParse == CallParseRssSimple

SpecParse == InitParse /\ [][NextParse]_vars

(***************************************************************************)
(* A run over feeds with a description longer than the cap.                *)
(***************************************************************************)

(* "<b>" and 80 times "ice ": 323 characters, 319 of them left by          *)
(* clean_html                                                              *)
LONG_DESCRIPTION ==
  <<"<", "b", ">">> \o [i \in 1..320 |-> <<"i", "c", "e", " ">>[((i - 1) % 4) + 1]]

K11 == [tag |-> "item", title |-> <<"I","c","e"," ","s","t","o","r","m"," ","F","l","o","r","e","n","c","e">>,
        link |-> U2, pubDate |-> P_47h, description |-> LONG_DESCRIPTION]

CapPool == {K3, K5, K11}

InitCap ==
  /\ pc = "fetch"
  /\ source_i = 1
  /\ content = "unset"
  /\ items = <<>>
  /\ item = NoItem
  /\ articles = <<>>
  /\ seen_urls = {}
  /\ seen_titles = {}
  /\ now = 0
  /\ result = NoResult
  /\ shadow = EmptyAcc
  /\ pool = CapPool
  /\ http = HttpOff
  /\ rel = RelIdle
  /\ rec = RecIdle
  /\ fch = NoCall /\ prs = NoCall /\ cln = NoCall /\ ddp = NoCall
  /\ post = NoCall

SpecCap == InitCap /\ [][Next]_vars

(***************************************************************************)
(* Inputs and specification of clean_html: a text is up to MaxFrags        *)
(* fragments, or one of the examples.                                      *)
(***************************************************************************)

MaxFrags == 3

Fragments ==
  { <<"a">>, <<" ">>, <<"\n">>, <<"<">>, <<">">>, <<"&">>, <<NBSP>>,
    E_NBSP, <<"&","a","m","p",";">>, <<"n","b","s","p",";">>,
    <<"&","l","t",";">>, <<"&","g","t",";">>, <<"<","b",">">>,
    CDATA_OPEN, CDATA_CLOSE }

RECURSIVE Concat(_)
Concat(frags) == IF frags = <<>> THEN <<>> ELSE Head(frags) \o Concat(Tail(frags))

Ex_PowerOutage == <<"P","o","w","e","r"," ","&","a","m","p",";","n","b","s","p",";","O","u","t","a","g","e"," ","<","b",">","A","l","e","r","t","<","/","b",">">>

Ex_HiddenNbsp == <<"a","&","a","m","p",";","n","b","s","p",";","a">>

Ex_Glued == <<"a","<","b",">","a","<","/","b",">">>

ExampleTexts == {Ex_PowerOutage, Ex_HiddenNbsp, Ex_Glued}

Texts ==
  ExampleTexts \cup {Concat(frags) : frags \in UNION {[1..n -> Fragments] : n \in 0..MaxFrags}}

ClnInputs == [called : {FALSE}, text : Texts]

InitClean ==
  /\ cln \in ClnInputs
  /\ rel = RelIdle /\ rec = RecIdle
  /\ fch = NoCall /\ prs = NoCall /\ ddp = NoCall
  /\ CrawlOff
  /\ post = NoCall

CallCleanHtml ==
  /\ ~cln.called
  /\ cln' = [called |-> TRUE, text |-> cln.text, out |-> clean_html(cln.text)]
  /\ UNCHANGED <<rel, rec, fch, prs, ddp, post, crawl_vars>>

NextClean == CallCleanHtml

SpecClean == InitClean /\ [][NextClean]_vars

(***************************************************************************)
(* Deduplication on its own.  The loop of crawl_news records an item after *)
(* the relevance test; NewsCrawler._is_duplicate records the candidate     *)
(* inside the test.  A sequence of candidates is passed once, then either  *)
(* a second time with the sets the first pass left, or the accepted        *)
(* output is passed again with fresh sets.                                 *)
(***************************************************************************)

MaxDedupLen == 3

(* NewsCrawler._is_duplicate: the verdict and the sets it leaves *)
NC_is_duplicate(seen, url, title) ==
  LET norm_title == normalize_title(title)
  IN  IF url \in seen.seen_urls \/ norm_title \in seen.seen_titles
      THEN [dup |-> TRUE, seen_urls |-> seen.seen_urls, seen_titles |-> seen.seen_titles]
      ELSE [dup |-> FALSE,
            seen_urls |-> seen.seen_urls \cup {url},
            seen_titles |-> seen.seen_titles \cup {norm_title}]

(* the candidates _is_duplicate lets through, and the sets afterwards *)
RECURSIVE NC_Dedup(_, _)
NC_Dedup(acc, candidates) ==
  IF candidates = <<>> THEN acc
  ELSE LET c == Head(candidates)
           d == NC_is_duplicate(acc, c.link, c.title)
       IN  NC_Dedup([articles |-> IF d.dup THEN acc.articles ELSE Append(acc.articles, c),
                     seen_urls |-> d.seen_urls,
                     seen_titles |-> d.seen_titles],
                    Tail(candidates))

(* the term lists of NewsCrawler._is_relevant *)
NC_exclude_terms ==
  { <<"s","h","o","o","t","i","n","g">>,
    <<"s","h","o","t">>,
    <<"m","u","r","d","e","r">>,
    <<"k","i","l","l","e","d">>,
    <<"a","r","r","e","s","t">>,
    <<"a","r","r","e","s","t","e","d">>,
    <<"s","t","a","n","d","o","f","f">>,
    <<"p","o","l","i","c","e">>,
    <<"s","u","s","p","e","c","t">>,
    <<"c","r","i","m","e">>,
    <<"r","o","b","b","e","r","y">>,
    <<"a","s","s","a","u","l","t">>,
    <<"h","o","m","i","c","i","d","e">>,
    <<"i","n","v","e","s","t","i","g","a","t","i","o","n">>,
    <<"c","u","s","t","o","d","y">>,
    <<"c","h","a","r","g","e","d">>,
    <<"v","i","c","t","i","m">>,
    <<"m","o","s","q","u","e">>,
    <<"c","h","u","r","c","h"," ","s","h","o","o","t","i","n","g">>,
    <<"g","u","n","f","i","r","e">>,
    <<"g","u","n","m","a","n">> }

NC_sc_terms ==
  { <<"s","o","u","t","h"," ","c","a","r","o","l","i","n","a">>,
    <<" ","s","c"," ">>,
    <<"c","a","r","o","l","i","n","a">> }

NC_weather_terms ==
  { <<"i","c","e"," ","s","t","o","r","m">>,
    <<"w","i","n","t","e","r"," ","s","t","o","r","m">>,
    <<"f","r","e","e","z","i","n","g"," ","r","a","i","n">>,
    <<"f","r","o","z","e","n">>,
    <<"f","r","e","e","z","e"," ","w","a","r","n","i","n","g">>,
    <<"i","c","e"," ","a","c","c","u","m","u","l","a","t","i","o","n">>,
    <<"s","l","e","e","t">>,
    <<"b","l","a","c","k"," ","i","c","e">>,
    <<"p","o","w","e","r"," ","o","u","t","a","g","e">>,
    <<"o","u","t","a","g","e","s">>,
    <<"w","i","t","h","o","u","t"," ","p","o","w","e","r">>,
    <<"p","o","w","e","r"," ","r","e","s","t","o","r","e","d">>,
    <<"w","a","r","m","i","n","g"," ","s","h","e","l","t","e","r">>,
    <<"w","a","r","m","i","n","g"," ","c","e","n","t","e","r">>,
    <<"r","o","a","d"," ","c","o","n","d","i","t","i","o","n","s">>,
    <<"h","a","z","a","r","d","o","u","s"," ","r","o","a","d","s">>,
    <<"i","c","y"," ","r","o","a","d","s">>,
    <<"s","c","h","o","o","l"," ","c","l","o","s","i","n","g">>,
    <<"s","c","h","o","o","l"," ","d","e","l","a","y">>,
    <<"w","i","n","t","e","r"," ","w","e","a","t","h","e","r">>,
    <<"c","o","l","d"," ","s","n","a","p">>,
    <<"b","e","l","o","w"," ","f","r","e","e","z","i","n","g">>,
    <<"w","i","n","d"," ","c","h","i","l","l">>,
    <<"r","e","d"," ","c","r","o","s","s"," ","s","h","e","l","t","e","r">>,
    <<"e","m","e","r","g","e","n","c","y"," ","s","h","e","l","t","e","r">> }

(* NewsCrawler._is_relevant *)
NC_is_relevant(title, description) ==
  LET text == Lower(title \o <<" ">> \o description)
  IN  IF ContainsAny(text, NC_exclude_terms) THEN FALSE
      ELSE ContainsAny(text, NC_sc_terms) /\ ContainsAny(text, NC_weather_terms)

(* the loop body of fetch_google_news and fetch_local_news_rss: the        *)
(* duplicate test, which records the candidate, then the relevance test    *)
RECURSIVE NC_Crawl(_, _)
NC_Crawl(acc, candidates) ==
  IF candidates = <<>> THEN acc
  ELSE LET c == Head(candidates)
           d == NC_is_duplicate(acc, c.link, c.title)
           accepted == ~d.dup /\ NC_is_relevant(c.title, c.description)
       IN  NC_Crawl([articles |-> IF accepted THEN Append(acc.articles, c) ELSE acc.articles,
                     seen_urls |-> d.seen_urls,
                     seen_titles |-> d.seen_titles],
                    Tail(candidates))

(* the candidates parse_rss_simple can deliver from the pool *)
DedupItems ==
  {ParseBlock(b) : b \in {k \in BlockPool : ParseBlock(k).title # <<>> /\ ParseBlock(k).link # <<>>}}

(* the sets at the start of the pass: fresh, or left by an earlier feed *)
DedupStarts ==
  {EmptyAcc, ProcessFeed(EmptyAcc, <<ParseBlock(K1)>>, SourceLabels[1]),
   ProcessFeed(EmptyAcc, <<ParseBlock(K4)>>, SourceLabels[1])}

(* an accepted article as a candidate *)
AsItem(a) ==
  [title |-> a.title, link |-> a.url, published |-> a.published, description |-> a.summary]

AsItems(s) == [i \in DOMAIN s |-> AsItem(s[i])]

(* the articles a pass added to those it started with *)
NewOf(before, after) == SubSeq(after.articles, Len(before.articles) + 1, Len(after.articles))

DdpInputs ==
  [pc : {"start"},
   candidates : UNION {[1..n -> DedupItems] : n \in 0..MaxDedupLen},
   start : DedupStarts]

InitDedup ==
  /\ ddp \in DdpInputs
  /\ rel = RelIdle /\ rec = RecIdle
  /\ fch = NoCall /\ prs = NoCall /\ cln = NoCall
  /\ CrawlOff
  /\ post = NoCall

(* the first pass, by the loop of crawl_news and by _is_duplicate *)
DedupFirstPass ==
  /\ ddp.pc = "start"
  /\ ddp' = [pc |-> "once", candidates |-> ddp.candidates, start |-> ddp.start,
             first |-> ProcessFeed(ddp.start, ddp.candidates, SourceLabels[1]),
             nc_first |-> NC_Dedup([ddp.start EXCEPT !.articles = <<>>], ddp.candidates),
             nc_run |-> NC_Crawl(EmptyAcc, ddp.candidates)]
  /\ UNCHANGED <<rel, rec, fch, prs, cln, post, crawl_vars>>

(* the same candidates again, with the sets the first pass left *)
DedupSecondPass ==
  /\ ddp.pc = "once"
  /\ ddp' = [pc |-> "twice", candidates |-> ddp.candidates, start |-> ddp.start,
             first |-> ddp.first, nc_first |-> ddp.nc_first, nc_run |-> ddp.nc_run,
             again |-> ProcessFeed(ddp.first, ddp.candidates, SourceLabels[1]),
             nc_again |-> NC_Dedup(ddp.nc_first, ddp.candidates)]
  /\ UNCHANGED <<rel, rec, fch, prs, cln, post, crawl_vars>>

(* the accepted output of the first pass, with fresh sets *)
DedupFreshPass ==
  /\ ddp.pc = "once"
  /\ ddp' = [pc |-> "fresh", candidates |-> ddp.candidates, start |-> ddp.start,
             first |-> ddp.first, nc_first |-> ddp.nc_first, nc_run |-> ddp.nc_run,
             again |-> ProcessFeed(EmptyAcc, AsItems(NewOf(ddp.start, ddp.first)), SourceLabels[1]),
             nc_again |-> NC_Dedup(EmptyAcc, ddp.nc_first.articles)]
  /\ UNCHANGED <<rel, rec, fch, prs, cln, post, crawl_vars>>

NextDedup ==
  \/ DedupFirstPass
  \/ DedupSecondPass
  \/ DedupFreshPass

SpecDedup == InitDedup /\ [][NextDedup]_vars

(***************************************************************************)
(* handler.do_GET.  send_response and send_header fill the header buffer   *)
(* of BaseHTTPRequestHandler, end_headers writes the buffer to the         *)
(* connection and empties it when the write succeeded; wfile.write writes  *)
(* the body.  `sent` is what went over the connection.  Every statement    *)
(* that writes to the connection, and the serialisation of line 278,       *)
(* either succeeds or raises; crawl_news may be left by an exception of    *)
(* the runtime.                                                            *)
(***************************************************************************)

(* lines 272-275 *)
Head200 ==
  [kind |-> "head", status |-> 200,
   headers |-> <<"Content-Type", "Access-Control-Allow-Origin", "Cache-Control">>]

(* lines 280-281 *)
Head500 == [kind |-> "head", status |-> 500, headers |-> <<"Content-Type">>]

(* json.dumps(result): an object with the keys metadata and articles *)
JsonOfResult(r) == [metadata |-> r.metadata, articles |-> r.articles]

(* json.dumps({'error': str(e)}) *)
JsonOfError(message) == [error |-> message]

Body(json) == [kind |-> "body", json |-> json]

GetPool == {K2, K3, K5}

InitGet ==
  /\ pc = "fetch"
  /\ source_i = 1
  /\ content = "unset"
  /\ items = <<>>
  /\ item = NoItem
  /\ articles = <<>>
  /\ seen_urls = {}
  /\ seen_titles = {}
  /\ now = 0
  /\ result = NoResult
  /\ shadow = EmptyAcc
  /\ pool = GetPool
  /\ http = [pc |-> "crawl", buffer |-> <<>>, sent |-> <<>>, exc |-> "none"]
  /\ rel = RelIdle
  /\ rec = RecIdle
  /\ fch = NoCall /\ prs = NoCall /\ cln = NoCall /\ ddp = NoCall
  /\ post = NoCall

crawl_state == <<source_i, content, items, item, articles, seen_urls, seen_titles, now, result, shadow, pool>>

(* line 271: an exception leaves crawl_news *)
CrawlRaises ==
  /\ http.pc = "crawl"
  /\ pc \in {"fetch", "items"}
  /\ pc' = "raised"
  /\ http' = [http EXCEPT !.pc = "except", !.exc = "crawl_news"]
  /\ UNCHANGED <<crawl_state, call_vars>>

(* lines 272-276: crawl_news returned, the head is written *)
SendHead200 ==
  /\ http.pc = "crawl"
  /\ pc = "done"
  /\ http' = [http EXCEPT !.pc = "body", !.sent = @ \o <<Head200>>]
  /\ UNCHANGED <<pc, crawl_state, call_vars>>

(* line 276: the write of the head raises, the buffer keeps the head *)
SendHead200Raises ==
  /\ http.pc = "crawl"
  /\ pc = "done"
  /\ http' = [http EXCEPT !.pc = "except", !.buffer = @ \o <<Head200>>, !.exc = "end_headers"]
  /\ UNCHANGED <<pc, crawl_state, call_vars>>

(* line 278 *)
WriteBody ==
  /\ http.pc = "body"
  /\ http' = [http EXCEPT !.pc = "end", !.sent = Append(@, Body(JsonOfResult(result)))]
  /\ UNCHANGED <<pc, crawl_state, call_vars>>

(* line 278: the serialisation or the write raises *)
WriteBodyRaises ==
  /\ http.pc = "body"
  /\ http' = [http EXCEPT !.pc = "except", !.exc = "write"]
  /\ UNCHANGED <<pc, crawl_state, call_vars>>

(* lines 279-282: the head of the error response, after what the buffer    *)
(* still holds                                                             *)
SendHead500 ==
  /\ http.pc = "except"
  /\ http' = [http EXCEPT !.pc = "errbody", !.sent = @ \o http.buffer \o <<Head500>>,
                          !.buffer = <<>>]
  /\ UNCHANGED <<pc, crawl_state, call_vars>>

(* line 282: the write raises and the exception leaves do_GET *)
SendHead500Raises ==
  /\ http.pc = "except"
  /\ http' = [http EXCEPT !.pc = "raised", !.buffer = @ \o <<Head500>>]
  /\ UNCHANGED <<pc, crawl_state, call_vars>>

(* line 283 *)
WriteError ==
  /\ http.pc = "errbody"
  /\ http' = [http EXCEPT !.pc = "end", !.sent = Append(@, Body(JsonOfError(http.exc)))]
  /\ UNCHANGED <<pc, crawl_state, call_vars>>

(* line 283: the write raises and the exception leaves do_GET *)
WriteErrorRaises ==
  /\ http.pc = "errbody"
  /\ http' = [http EXCEPT !.pc = "raised"]
  /\ UNCHANGED <<pc, crawl_state, call_vars>>

NextGet ==
  \/ Next
  \/ CrawlRaises
  \/ SendHead200
  \/ SendHead200Raises
  \/ WriteBody
  \/ WriteBodyRaises
  \/ SendHead500
  \/ SendHead500Raises
  \/ WriteError
  \/ WriteErrorRaises

SpecGet == InitGet /\ [][NextGet]_vars

(***************************************************************************)
(* summary.py, handler.do_POST.  The body of the request is given by what  *)
(* json.loads makes of it: no body at all, a text that is not JSON, or a   *)
(* JSON value.  A JSON string is a sequence of characters, null is JNull,  *)
(* an object is the function from its keys to their values, and a value    *)
(* whose kind the code tests or trips over carries its kind in `type`.     *)
(* The answer goes out through `http` as in do_GET; lines 175-179 of       *)
(* summary.py are lines 279-283 of crawl.py, so the except branch is the   *)
(* one modelled there.  The message of an exception is given by its class. *)
(***************************************************************************)

JNull == <<"null">>

NoMembers == <<>>

Get(a, key, default) == IF key \in DOMAIN a.members THEN a.members[key] ELSE default

Unknown == "Unknown"

SEE_BELOW == <<"S","e","e"," ","n","e","w","s"," ","c","o","v","e","r","a","g","e"," ","b","e","l","o","w">>

POWER_WORDS == {<<"p","o","w","e","r">>, <<"o","u","t","a","g","e">>, <<"d","u","k","e"," ","e","n","e","r","g","y">>, <<"e","l","e","c","t","r","i","c">>}

ROAD_WORDS == {<<"r","o","a","d">>, <<"c","r","a","s","h">>, <<"d","r","i","v","e">>, <<"t","r","a","v","e","l">>, <<"i","c","e">>}

SCHOOL_WORDS == {<<"s","c","h","o","o","l">>, <<"c","l","a","s","s">>, <<"u","n","i","v","e","r","s","i","t","y">>, <<"c","o","l","l","e","g","e">>}

SHELTER_WORDS == {<<"s","h","e","l","t","e","r">>, <<"w","a","r","m","i","n","g">>, <<"h","o","t","l","i","n","e">>}

HEADLINE_CAP == 100

BUCKET_CAP == 4

PROMPT_ARTICLES == 25

(* line 111: the text the keywords are looked for in *)
TextOf(a) == Lower(Get(a, "title", <<>>) \o <<" ">> \o Get(a, "summary", <<>>))

(* lines 110-119: the titles of the articles that mention one of the words *)
Bucket(elems, words) ==
  LET hit == SelectSeq(elems, LAMBDA a : ContainsAny(TextOf(a), words))
  IN  [i \in 1..Len(hit) |-> Get(hit[i], "title", <<>>)]

(* lines 125-128: up to four headlines of up to 100 characters, or the     *)
(* pointer to the coverage                                                 *)
Impact(titles) ==
  IF titles # <<>>
  THEN [i \in 1..Min(BUCKET_CAP, Len(titles)) |-> Take(titles[i], HEADLINE_CAP)]
  ELSE <<SEE_BELOW>>

(* the exception generate_fallback_summary is left by, "none" when it      *)
(* returns: line 100 iterates over articles, line 101 calls a.get on      *)
(* every element, line 111 concatenates title and summary with a string    *)
FallbackExc(arts) ==
  IF arts.type # "list" THEN "TypeError"
  ELSE IF \E i \in DOMAIN arts.elems : arts.elems[i].type # "object" THEN "AttributeError"
  ELSE IF \E i \in DOMAIN arts.elems :
            \/ Get(arts.elems[i], "title", <<>>) = JNull
            \/ Get(arts.elems[i], "summary", <<>>) = JNull
       THEN "TypeError"
  ELSE "none"

(* generate_fallback_summary, lines 95-146, where it returns *)
generate_fallback_summary(arts) ==
  LET sources == {Get(arts.elems[i], "source", Unknown) : i \in DOMAIN arts.elems}
  IN  [executive_summary |->
         <<"This report summarizes ", Len(arts.elems), " news articles from ",
           Cardinality(sources),
           " sources covering the South Carolina ice storm. See article headlines below for specific impacts reported by local media.">>,
       key_impacts |->
         [power_outages |-> Impact(Bucket(arts.elems, POWER_WORDS)),
          road_conditions |-> Impact(Bucket(arts.elems, ROAD_WORDS)),
          schools_closures |-> Impact(Bucket(arts.elems, SCHOOL_WORDS)),
          shelters_warming |-> Impact(Bucket(arts.elems, SHELTER_WORDS)),
          emergency_response |-> <<"See news coverage below for emergency response details">>],
       affected_areas |-> <<"See specific locations in articles below">>,
       critical_numbers |->
         [estimated_outages |-> "See coverage",
          crashes_reported |-> "See coverage",
          shelters_open |-> "See coverage",
          schools_affected |-> "See coverage"],
       action_items |->
         <<"Review article details below for current situation",
           "Check power company websites for outage updates",
           "Monitor local news for road conditions",
           "Contact local emergency management for shelter info">>,
       timeline |-> <<>>,
       resources_mentioned |-> <<"See articles for contact information">>]

(* call_claude, lines 21-25, which are outside its try: the exception the  *)
(* assembly of the prompt raises, "none" when it raises none.  The slice   *)
(* needs a list, a.get an object, and the slice of `published` a string; a *)
(* summary that is null is skipped by line 23.                             *)
PromptExc(arts) ==
  IF arts.type # "list" THEN "TypeError"
  ELSE LET n == Min(PROMPT_ARTICLES, Len(arts.elems))
           bad == {i \in 1..n : \/ arts.elems[i].type # "object"
                                \/ Get(arts.elems[i], "published", <<>>) = JNull}
           first == CHOOSE i \in bad : \A j \in bad : i <= j
       IN  IF bad = {} THEN "none"
           ELSE IF arts.elems[first].type # "object" THEN "AttributeError"
           ELSE "TypeError"

(* call_claude, lines 80-92: the value it returns for what the API did.    *)
(* Whatever is raised inside the try gives None; otherwise it is the JSON  *)
(* value of the text of the answer, null being None.                       *)
NoSummary == [type |-> "None"]

call_claude(answer) ==
  IF answer.type \in {"raises", "null"} THEN NoSummary ELSE answer

(* `not summary`: None and the empty object are false *)
IsFalsy(summary) ==
  \/ summary.type = "None"
  \/ summary.type = "object" /\ DOMAIN summary.members = {}

(* lines 166-167 on an object *)
Extended(members, t_now, count) ==
  [k \in DOMAIN members \cup {"generated_at", "article_count"} |->
     IF k = "generated_at" THEN t_now
     ELSE IF k = "article_count" THEN count
     ELSE members[k]]

(* lines 169-172 *)
PostHead200 ==
  [kind |-> "head", status |-> 200,
   headers |-> <<"Content-Type", "Access-Control-Allow-Origin">>]

(* the articles of the requests *)
A_Power == [type |-> "object",
            members |-> [title |-> Ex_PowerOutage, summary |-> <<>>, source |-> SourceLabels[1],
                         published |-> <<"2","0","2","6">>]]

A_Shelter == [type |-> "object",
              members |-> [title |-> W_RedCross \o <<" ">> \o <<"s","h","e","l","t","e","r">>,
                           summary |-> <<"i","c","y"," ","r","o","a","d","s">>]]

A_NullSummary == [type |-> "object", members |-> [title |-> Ex_PowerOutage, summary |-> JNull]]

A_NullPublished == [type |-> "object",
                    members |-> [title |-> Ex_PowerOutage, summary |-> <<>>, published |-> JNull]]

A_String == [type |-> "string"]

ListOf(elems) == [type |-> "list", elems |-> elems]

ObjectWith(arts) == [type |-> "object", has_articles |-> TRUE, articles |-> arts]

(* the bodies: none, not JSON, [], {}, and objects with `articles` *)
PostBodies ==
  << [type |-> "none"],
     [type |-> "malformed"],
     [type |-> "array"],
     [type |-> "object", has_articles |-> FALSE],
     ObjectWith(ListOf(<<>>)),
     ObjectWith(ListOf(<<A_Power, A_Shelter>>)),
     ObjectWith(ListOf([i \in 1..(BUCKET_CAP + 1) |-> A_Power])),
     ObjectWith(ListOf([i \in 1..(PROMPT_ARTICLES + 1) |->
                          IF i > PROMPT_ARTICLES THEN A_NullPublished ELSE A_Shelter])),
     ObjectWith([type |-> "null"]),
     ObjectWith(ListOf(<<A_String>>)),
     ObjectWith(ListOf(<<A_Power, A_NullSummary>>)),
     ObjectWith(ListOf(<<A_NullPublished>>)) >>

(* what the API does to a call: the request fails or the answer cannot be  *)
(* read, the text of the answer is null, {}, an object or a list           *)
ClaudeAnswers ==
  << [type |-> "raises"],
     [type |-> "null"],
     [type |-> "object", members |-> NoMembers],
     [type |-> "object", members |-> [executive_summary |-> "text of the answer"]],
     [type |-> "array"] >>

(* the values of ANTHROPIC_API_KEY, line 14 *)
ApiKeys == {"", "key"}

(* the values of the Content-Length header: the length of the body or not  *)
(* a number                                                                *)
ContentLengths == {"length", "not a number"}

InitPost ==
  /\ \E b \in DOMAIN PostBodies, k \in ApiKeys, l \in ContentLengths, t \in Nows :
       post = [pc |-> "read", ANTHROPIC_API_KEY |-> k, content_length |-> l,
               body |-> PostBodies[b], t_now |-> t, articles |-> [type |-> "unset"],
               called |-> FALSE, answer |-> [type |-> "unset"],
               summary |-> NoSummary]
  /\ pc = "off"
  /\ source_i = 0
  /\ content = "unset"
  /\ items = <<>>
  /\ item = NoItem
  /\ articles = <<>>
  /\ seen_urls = {}
  /\ seen_titles = {}
  /\ now = 0
  /\ result = NoResult
  /\ shadow = EmptyAcc
  /\ pool = {}
  /\ http = [pc |-> "post", buffer |-> <<>>, sent |-> <<>>, exc |-> "none"]
  /\ rel = RelIdle
  /\ rec = RecIdle
  /\ fch = NoCall /\ prs = NoCall /\ cln = NoCall /\ ddp = NoCall

post_rest == <<pc, crawl_state, rel, rec, fch, prs, cln, ddp>>

(* lines 152-155: int() of the header, json.loads of a body that is not    *)
(* empty, data.get on what it gave                                         *)
ReadRequest ==
  /\ http.pc = "post" /\ post.pc = "read"
  /\ LET exc == IF post.content_length = "not a number" THEN "ValueError"
                ELSE IF post.body.type = "malformed" THEN "JSONDecodeError"
                ELSE IF post.body.type = "array" THEN "AttributeError"
                ELSE "none"
         arts == IF post.body.type = "object" /\ post.body.has_articles
                 THEN post.body.articles
                 ELSE ListOf(<<>>)
     IN  IF exc # "none"
         THEN /\ post' = [post EXCEPT !.pc = "except"]
              /\ http' = [http EXCEPT !.pc = "except", !.exc = exc]
         ELSE /\ post' = [post EXCEPT !.pc = "summarise", !.articles = arts]
              /\ http' = http
  /\ UNCHANGED post_rest

(* lines 158-167 once summary is known: the fallback, the two keys *)
Summarised(summary) ==
  LET exc == IF IsFalsy(summary) THEN FallbackExc(post.articles)
             ELSE IF summary.type # "object" THEN "TypeError"
             ELSE "none"
      members == IF IsFalsy(summary) THEN generate_fallback_summary(post.articles)
                 ELSE summary.members
  IN  IF exc # "none"
      THEN /\ post' = [post EXCEPT !.pc = "except", !.summary = summary]
           /\ http' = [http EXCEPT !.pc = "except", !.exc = exc]
      ELSE /\ post' = [post EXCEPT !.pc = "respond",
                         !.summary = [type |-> "object",
                                      members |-> Extended(members, post.t_now,
                                                           Len(post.articles.elems))]]
           /\ http' = [http EXCEPT !.pc = "head"]

(* lines 158-167 with no key: call_claude is not called *)
SummariseWithoutKey ==
  /\ http.pc = "post" /\ post.pc = "summarise"
  /\ post.ANTHROPIC_API_KEY = ""
  /\ Summarised(NoSummary)
  /\ UNCHANGED post_rest

(* line 160, the prompt of call_claude cannot be assembled: the exception  *)
(* leaves call_claude                                                      *)
CallClaudeRaises ==
  /\ http.pc = "post" /\ post.pc = "summarise"
  /\ post.ANTHROPIC_API_KEY # ""
  /\ PromptExc(post.articles) # "none"
  /\ post' = [post EXCEPT !.pc = "except"]
  /\ http' = [http EXCEPT !.pc = "except", !.exc = PromptExc(post.articles)]
  /\ UNCHANGED post_rest

(* line 160: the call of the API, whatever it does *)
CallClaude ==
  /\ http.pc = "post" /\ post.pc = "summarise"
  /\ post.ANTHROPIC_API_KEY # ""
  /\ PromptExc(post.articles) = "none"
  /\ \E a \in DOMAIN ClaudeAnswers :
       post' = [post EXCEPT !.pc = "called", !.called = TRUE, !.answer = ClaudeAnswers[a],
                            !.summary = call_claude(ClaudeAnswers[a])]
  /\ UNCHANGED <<http, post_rest>>

(* lines 163-167 after the call *)
SummariseAfterCall ==
  /\ http.pc = "post" /\ post.pc = "called"
  /\ Summarised(post.summary)
  /\ UNCHANGED post_rest

(* lines 169-172: the head is written *)
PostSendHead200 ==
  /\ http.pc = "head"
  /\ http' = [http EXCEPT !.pc = "postbody", !.sent = @ \o <<PostHead200>>]
  /\ UNCHANGED <<post, post_rest>>

(* line 172: the write of the head raises, the buffer keeps the head *)
PostSendHead200Raises ==
  /\ http.pc = "head"
  /\ http' = [http EXCEPT !.pc = "except", !.buffer = @ \o <<PostHead200>>, !.exc = "end_headers"]
  /\ UNCHANGED <<post, post_rest>>

(* line 173 *)
PostWriteBody ==
  /\ http.pc = "postbody"
  /\ http' = [http EXCEPT !.pc = "end", !.sent = Append(@, Body(post.summary.members))]
  /\ UNCHANGED <<post, post_rest>>

(* line 173: the write raises *)
PostWriteBodyRaises ==
  /\ http.pc = "postbody"
  /\ http' = [http EXCEPT !.pc = "except", !.exc = "write"]
  /\ UNCHANGED <<post, post_rest>>

NextPost ==
  \/ ReadRequest
  \/ SummariseWithoutKey
  \/ CallClaudeRaises
  \/ CallClaude
  \/ SummariseAfterCall
  \/ PostSendHead200
  \/ PostSendHead200Raises
  \/ PostWriteBody
  \/ PostWriteBodyRaises
  \/ SendHead500
  \/ SendHead500Raises
  \/ WriteError
  \/ WriteErrorRaises

SpecPost == InitPost /\ [][NextPost]_vars

(***************************************************************************)
(* The merge of the sources' results in any order.  crawl_news runs the    *)
(* loop body over the sources one after the other; here the next candidate *)
(* may come from any source that has one left, each pass of the loop body  *)
(* being one step.                                                         *)
(***************************************************************************)

(* the number of candidates of all sources together *)
MaxMergeLen == 3

MergeItems == {ParseBlock(K1), ParseBlock(K2), ParseBlock(K3), ParseBlock(K5)}

MergeLabels == <<SourceLabels[1], SourceLabels[NumSources]>>

MergeFeeds == UNION {[1..n -> MergeItems] : n \in 0..MaxMergeLen}

MrgInputs ==
  [pc : {"merge"},
   feeds : {f \in [DOMAIN MergeLabels -> MergeFeeds] : Len(f[1]) + Len(f[2]) <= MaxMergeLen},
   acc : {EmptyAcc}]

InitMerge ==
  /\ \E m \in MrgInputs :
       ddp = [pc |-> m.pc, feeds |-> m.feeds, acc |-> m.acc, left |-> m.feeds]
  /\ rel = RelIdle /\ rec = RecIdle
  /\ fch = NoCall /\ prs = NoCall /\ cln = NoCall
  /\ CrawlOff
  /\ post = NoCall

(* lines 190-207 for the next candidate of source i *)
MergeStep ==
  /\ ddp.pc = "merge"
  /\ \E i \in DOMAIN MergeLabels :
       /\ ddp.left[i] # <<>>
       /\ ddp' = [ddp EXCEPT !.acc = ProcessItem(@, Head(ddp.left[i]), MergeLabels[i]),
                             !.left[i] = Tail(@)]
  /\ UNCHANGED <<rel, rec, fch, prs, cln, post, crawl_vars>>

NextMerge == MergeStep

SpecMerge == InitMerge /\ [][NextMerge]_vars

(***************************************************************************)
(* A run over feeds whose articles have equal sort keys: two published     *)
(* strings of one instant in different formats, and two dates no format    *)
(* matches.                                                                *)
(***************************************************************************)

K12 == [tag |-> "item", title |-> <<"F","l","o","r","e","n","c","e"," ","o","u","t","a","g","e">>,
        link |-> U1, pubDate |-> [layout |-> "isoT", t |-> NOW_EX - 47, suffix |-> <<>>],
        description |-> <<>>]

K13 == [tag |-> "item", title |-> <<"Y","o","r","k"," ","s","l","e","e","t">>,
        link |-> U6, pubDate |-> [layout |-> "long", t |-> NOW_EX - 30, suffix |-> <<>>],
        description |-> <<>>]

StablePool == {K2, K5, K6, K12, K13}

InitStable ==
  /\ pc = "fetch"
  /\ source_i = 1
  /\ content = "unset"
  /\ items = <<>>
  /\ item = NoItem
  /\ articles = <<>>
  /\ seen_urls = {}
  /\ seen_titles = {}
  /\ now = 0
  /\ result = NoResult
  /\ shadow = EmptyAcc
  /\ pool = StablePool
  /\ http = HttpOff
  /\ rel = RelIdle
  /\ rec = RecIdle
  /\ fch = NoCall /\ prs = NoCall /\ cln = NoCall /\ ddp = NoCall
  /\ post = NoCall

SpecStable == InitStable /\ [][Next]_vars

(***************************************************************************)
(* The crawl over feeds with undated articles: an item with no pubDate tag *)
(* whose title mentions the Red Cross, and an entry with no published tag  *)
(* that does not.                                                          *)
(***************************************************************************)

K14 == [tag |-> "item", title |-> W_RedCross \o <<" ">> \o <<"s","h","e","l","t","e","r"," ","S","C">>,
        link |-> U3, pubDate |-> EMPTY_PUB, description |-> <<>>]

UndatedPool == {K2, K5, K7, K14}

InitUndated ==
  /\ pc = "fetch"
  /\ source_i = 1
  /\ content = "unset"
  /\ items = <<>>
  /\ item = NoItem
  /\ articles = <<>>
  /\ seen_urls = {}
  /\ seen_titles = {}
  /\ now = 0
  /\ result = NoResult
  /\ shadow = EmptyAcc
  /\ pool = UndatedPool
  /\ http = HttpOff
  /\ rel = RelIdle
  /\ rec = RecIdle
  /\ fch = NoCall /\ prs = NoCall /\ cln = NoCall /\ ddp = NoCall
  /\ post = NoCall

SpecUndated == InitUndated /\ [][Next]_vars

(***************************************************************************)
(* Properties of the relevance classifier (SpecRel)                        *)
(***************************************************************************)

RelText == RelevanceText(rel.title, rel.description)

Excluded == ContainsAny(RelText, exclude_terms)

HasRedCross == Contains(RelText, RED_CROSS)

OverrideMatch == HasRedCross /\ ContainsAny(RelText, override_locations)

LocationGate == ContainsAny(RelText, location_terms)

TopicGate == ContainsAny(RelText, weather_terms)

HasNorth == Contains(RelText, NORTH_CAROLINA)

HasSouth == Contains(RelText, SOUTH_CAROLINA)

(* C2: a text containing an exclusion term is rejected, whatever else it   *)
(* contains: 'red cross', location tokens, topic tokens.                   *)
C2_ExclusionBeatsOverride == (rel.called /\ Excluded) => ~rel.out

(* an excluded text that matches the override and both gates was judged *)
C2_Witness ==
  /\ rel.called /\ Excluded /\ OverrideMatch /\ LocationGate /\ TopicGate
  /\ rel.title = Ex_Arrested
  /\ ~rel.out

C4_RedCrossWithLocation ==
  (rel.called /\ ~Excluded /\ HasRedCross /\ LocationGate) => rel.out

(* 'red cross' with a gate token, no other topic token, override not matched *)
C4_Witness ==
  /\ rel.called /\ ~Excluded /\ HasRedCross /\ LocationGate
  /\ ~ContainsAny(RelText, weather_terms_NoRedCross)
  /\ ~OverrideMatch
  /\ rel.out

(* C5: every accepted text contains a token of the location-gate list.     *)
C5_AcceptedHasLocation == (rel.called /\ rel.out) => LocationGate

(* C6: a text neither excluded nor accepted by the override is rejected    *)
(* when it has 'north carolina' without 'south carolina'; with both it is  *)
(* decided by the location and topic gates alone.                          *)
C6_NorthCarolinaRule ==
  (rel.called /\ ~Excluded /\ ~OverrideMatch) =>
    /\ (HasNorth /\ ~HasSouth) => ~rel.out
    /\ (HasNorth /\ HasSouth) => (rel.out <=> (LocationGate /\ TopicGate))

(* a north-carolina-only text that matches both gates was rejected *)
C6_Witness ==
  /\ rel.called /\ ~Excluded /\ ~OverrideMatch
  /\ HasNorth /\ ~HasSouth /\ LocationGate /\ TopicGate
  /\ rel.title = W_NorthCarolina \o <<" ">> \o W_Greenville \o <<" ">> \o W_IceStorm
  /\ ~rel.out

(***************************************************************************)
(* Properties of the recency filter (SpecRec)                              *)
(***************************************************************************)

RecText == Lower(rec.article.title \o <<" ">> \o rec.article.summary)

RecParsed == parse_date(rec.article.published)

RecWindow == IF Contains(RecText, RED_CROSS) THEN 7 * 24 ELSE 48

(* C7: an article whose published string parses is kept iff its timestamp  *)
(* is at or after now - 7 days when title + ' ' + summary mentions 'red    *)
(* cross', at or after now - 48 hours otherwise; the article published     *)
(* 2024-01-01 is dropped at now = 2026-01-27.                              *)
C7_Window ==
  (rec.called /\ RecParsed.ok) =>
    /\ rec.out <=> (RecParsed.t >= rec.now - RecWindow)
    /\ (rec.article.published = Ex_Pub2024 /\ rec.now = NOW_EX) => ~rec.out

(* an article exactly 48 hours old, with a timezone suffix, not about the  *)
(* red cross, was kept                                                     *)
C7_Witness ==
  /\ rec.called /\ RecParsed.ok
  /\ ~Contains(RecText, RED_CROSS)
  /\ rec.article.published.suffix # <<>>
  /\ RecParsed.t = rec.now - 48
  /\ rec.out

(* C8: an article whose published string fails every format is kept iff    *)
(* the string contains the year of `now`.                                  *)
C8_FallbackCurrentYear ==
  (rec.called /\ ~RecParsed.ok) =>
    (rec.out <=> PubContainsYear(rec.article.published, YearOf(rec.now)))

(***************************************************************************)
(* Properties of crawl_news (Spec)                                         *)
(***************************************************************************)

NoTwoAlike(list) ==
  \A i, j \in 1..Len(list) :
     i # j => /\ list[i].url # list[j].url
              /\ normalize_title(list[i].title) # normalize_title(list[j].title)

(* C1: at every point of the run no two accumulated articles have the same *)
(* url or the same normalised title, and neither have two returned ones.   *)
C1_NoDuplicates ==
  /\ NoTwoAlike(articles)
  /\ result.returned => NoTwoAlike(result.articles)

(* the item looked at last was discarded: its url is new and its title is  *)
(* spelled like no accepted title, but it normalises to an accepted one    *)
C1_Witness ==
  /\ pc = "items"
  /\ item # NoItem
  /\ Len(articles) >= 1
  /\ item.link \notin seen_urls
  /\ \A i \in 1..Len(articles) : articles[i].title # item.title
  /\ normalize_title(item.title) \in seen_titles

Parsed(a) == parse_date(a.published)

(* C9: the returned list is ordered by parsed timestamp, newest first, and *)
(* no article with an unparseable date precedes one with a parseable date. *)
C9_SortedNewestFirst ==
  result.returned =>
    \A i, j \in 1..Len(result.articles) :
       i < j =>
         LET a == result.articles[i]
             b == result.articles[j]
         IN  /\ (Parsed(a).ok /\ Parsed(b).ok) => Parsed(a).t >= Parsed(b).t
             /\ ~(~Parsed(a).ok /\ Parsed(b).ok)

(* three articles with distinct parsed timestamps and one with an          *)
(* unparseable date were returned, in another order than collected         *)
C9_Witness ==
  /\ pc = "done"
  /\ Len(result.articles) = 4
  /\ Parsed(result.articles[1]).t > Parsed(result.articles[2]).t
  /\ Parsed(result.articles[2]).t > Parsed(result.articles[3]).t
  /\ Parsed(result.articles[3]).ok
  /\ ~Parsed(result.articles[4]).ok
  /\ result.articles # articles
  /\ articles[1].published = result.articles[4].published

(* C10: a source whose fetch returns None or '' leaves the accumulated     *)
(* articles and both seen sets as they are and the run goes on with the    *)
(* next source; the run equals the run over the other sources alone.       *)
C10_FailedSourceSkipped ==
  /\ [][(pc = "fetch" /\ source_i <= NumSources /\ content' \in {"unavailable", "empty"})
          => /\ UNCHANGED <<articles, seen_urls, seen_titles>>
             /\ pc' = "fetch"
             /\ source_i' = source_i + 1]_vars
  /\ [](pc \in {"fetch", "done"} => Acc = shadow)
  /\ [](pc = "done" => result = BuildResult(shadow.articles, now))

(* a run returned articles of a later source after an earlier source failed *)
C10_Witness ==
  /\ pc = "done"
  /\ content = "text"
  /\ Len(result.articles) >= 1
  /\ \A i \in 1..Len(articles) : articles[i].source # "Google News"

(***************************************************************************)
(* Properties of fetch_url (SpecFetch)                                     *)
(***************************************************************************)

PrsBlocks == prs.xml_content.blocks

TagIdx(tag) == {i \in DOMAIN PrsBlocks : PrsBlocks[i].tag = tag}

(* the positions of the blocks the patterns match *)
MatchIdx == IF TagIdx("item") # {} THEN TagIdx("item") ELSE TagIdx("entry")

(* the first 15 of them *)
First15 == {i \in MatchIdx : Cardinality({j \in MatchIdx : j <= i}) <= 15}

BlockTitle(i) == clean_html(PrsBlocks[i].title)

BlockLink(i) == UnwrapCdata(Strip(PrsBlocks[i].link))

ValidIdx == {i \in First15 : BlockTitle(i) # <<>> /\ BlockLink(i) # <<>>}

(* the k-th smallest element of a set of positions *)
Nth(idx, k) == CHOOSE i \in idx : Cardinality({j \in idx : j <= i}) = k

(* C12: at most 15 entries, taken from the first 15 matched blocks in the  *)
(* order of the blocks; nothing for absent or empty input.                 *)
C12_AtMost15InOrder ==
  prs.called =>
    /\ Len(prs.out) <= 15
    /\ Len(prs.out) = Cardinality(ValidIdx)
    /\ \A k \in 1..Len(prs.out) :
         /\ prs.out[k].title = BlockTitle(Nth(ValidIdx, k))
         /\ prs.out[k].link = BlockLink(Nth(ValidIdx, k))
         /\ prs.out[k].published = PrsBlocks[Nth(ValidIdx, k)].pubDate
    /\ prs.xml_content.status # "text" => prs.out = <<>>

(* more than 15 blocks matched, some of the first 15 gave no entry, and a  *)
(* block after the 15th would have given one                               *)
C12_Witness ==
  /\ prs.called
  /\ Cardinality(MatchIdx) > 15
  /\ Len(prs.out) < 15 /\ Len(prs.out) > 1
  /\ \E i \in MatchIdx \ First15 : BlockTitle(i) # <<>> /\ BlockLink(i) # <<>>

(* C13: every entry has a title and a link; a block whose sanitized title  *)
(* or link is empty gives no entry and the blocks after it are still       *)
(* parsed.                                                                 *)
C13_TitleAndLink ==
  prs.called =>
    /\ \A k \in 1..Len(prs.out) : prs.out[k].title # <<>> /\ prs.out[k].link # <<>>
    /\ \A i \in First15 :
         (\E k \in 1..Len(prs.out) :
             prs.out[k].title = BlockTitle(i) /\ prs.out[k].link = BlockLink(i))
         <=> (BlockTitle(i) # <<>> /\ BlockLink(i) # <<>>)

(* a block with a title of markup only came first, a block with a link of  *)
(* white space came later, and the blocks after them gave entries          *)
C13_Witness ==
  /\ prs.called
  /\ PrsBlocks # <<>>
  /\ BlockTitle(1) = <<>> /\ PrsBlocks[1].title # <<>>
  /\ Len(prs.out) >= 2
  /\ \E i \in First15 : i > 1 /\ BlockTitle(i) # <<>> /\ BlockLink(i) # <<>>

(* C14: when an <item> block matches, every entry comes from an <item>     *)
(* block; when none matches, the entries come from the <entry> blocks.     *)
C14_EntryOnlyWithoutItem ==
  prs.called =>
    LET from(tag) ==
          \A k \in 1..Len(prs.out) :
             \E i \in TagIdx(tag) :
                prs.out[k].title = BlockTitle(i) /\ prs.out[k].link = BlockLink(i)
    IN  /\ TagIdx("item") # {} => from("item")
        /\ TagIdx("item") = {} =>
             /\ from("entry")
             /\ (\E i \in TagIdx("entry") : BlockTitle(i) # <<>> /\ BlockLink(i) # <<>>)
                  => prs.out # <<>>

(* a document with blocks of both tags, all of them with title and link *)
C14_Witness ==
  /\ prs.called
  /\ TagIdx("item") # {} /\ TagIdx("entry") # {}
  /\ \A i \in DOMAIN PrsBlocks : BlockTitle(i) # <<>> /\ BlockLink(i) # <<>>
  /\ Len(prs.out) = Cardinality(TagIdx("item"))

(***************************************************************************)
(* Properties of a run over long descriptions (SpecCap)                    *)
(***************************************************************************)

Range(s) == {s[i] : i \in DOMAIN s}

Produced == Range(articles) \cup (IF result.returned THEN Range(result.articles) ELSE {})

(* C15: the summary of every article of the run has at most 300            *)
(* characters and is the first 300 characters of the sanitized             *)
(* description of its block.                                               *)
C15_SummaryCap ==
  \A a \in Produced :
     /\ Len(a.summary) <= 300
     /\ \E b \in pool :
          /\ a.url = UnwrapCdata(Strip(b.link))
          /\ a.title = clean_html(b.title)
          /\ a.summary = Take(clean_html(b.description), 300)

(* the run returned an article whose sanitized description was longer      *)
(* than its summary                                                        *)
C15_Witness ==
  /\ pc = "done"
  /\ \E a \in Range(result.articles) :
       /\ Len(a.summary) = 300
       /\ \E b \in pool :
            /\ a.url = UnwrapCdata(Strip(b.link))
            /\ Len(clean_html(b.description)) > 300

(***************************************************************************)
(* Properties of clean_html (SpecClean)                                    *)
(***************************************************************************)

(* C16: 'Power &amp;nbsp;Outage <b>Alert</b>' becomes 'Power Outage        *)
(* Alert': the non-breaking-space entity that unescaping uncovers becomes  *)
(* a space, and a removed tag leaves a space between its neighbours.       *)
C16_PowerOutageAlert ==
  cln.called =>
    /\ cln.text = Ex_PowerOutage => cln.out = <<"P","o","w","e","r"," ","O","u","t","a","g","e"," ","A","l","e","r","t">>
    /\ cln.text = Ex_HiddenNbsp => cln.out = <<"a", " ", "a">>
    /\ cln.text = Ex_Glued => cln.out = <<"a", " ", "a">>

C16_Witness == cln.called /\ cln.text = Ex_PowerOutage /\ Len(cln.out) = 18

(* the text has a substring '<', characters other than '>', '>' *)
HasTag(s) ==
  \E i \in DOMAIN s : \E j \in (i + 2)..Len(s) :
     /\ s[i] = "<" /\ s[j] = ">"
     /\ \A k \in (i + 1)..(j - 1) : s[k] # ">"

(* C17: the output of clean_html has no tag-like substring, no             *)
(* non-breaking space, no two white space characters in a row and no white *)
(* space at either end; the empty text gives the empty text.               *)
C17_CleanOutput ==
  cln.called =>
    /\ ~HasTag(cln.out)
    /\ \A i \in DOMAIN cln.out : cln.out[i] # NBSP
    /\ \A i \in 1..(Len(cln.out) - 1) :
         ~(cln.out[i] \in Whitespace /\ cln.out[i + 1] \in Whitespace)
    /\ cln.out # <<>> => cln.out[1] \notin Whitespace /\ cln.out[Len(cln.out)] \notin Whitespace
    /\ cln.text = <<>> => cln.out = <<>>

(* a text with a tag, a non-breaking space and white space at its ends     *)
(* that is not cleaned away entirely                                       *)
C17_Witness ==
  /\ cln.called
  /\ HasTag(cln.text)
  /\ \E i \in DOMAIN cln.text : cln.text[i] = NBSP
  /\ cln.text[1] \in Whitespace
  /\ cln.out # <<>>

(***************************************************************************)
(* Properties of the result of a run (Spec)                                *)
(***************************************************************************)

(* C18: in the result, total_articles is the length of the returned list,  *)
(* total_crawled is the number of articles accepted before the recency     *)
(* filter, and total_articles <= total_crawled.                            *)
C18_Counts ==
  pc = "done" =>
    /\ result.returned
    /\ result.metadata.total_articles = Len(result.articles)
    /\ result.metadata.total_crawled = Len(articles)
    /\ result.metadata.total_crawled = Len(shadow.articles)
    /\ result.metadata.total_articles <= result.metadata.total_crawled

(* the filter dropped some of the accepted articles and kept others *)
C18_Witness ==
  /\ pc = "done"
  /\ result.metadata.total_articles >= 1
  /\ result.metadata.total_articles < result.metadata.total_crawled

(***************************************************************************)
(* Properties of the deduplication (SpecDedup)                             *)
(***************************************************************************)

(* C19: a second pass over the same candidates with the sets of the first  *)
(* pass accepts nothing, and the accepted output of a first pass is        *)
(* accepted whole and in order when it is passed with fresh sets.          *)
C19_Idempotent ==
  /\ ddp.pc = "twice" =>
       /\ ddp.again.articles = ddp.first.articles
       /\ ddp.again.seen_urls = ddp.first.seen_urls
       /\ ddp.again.seen_titles = ddp.first.seen_titles
       /\ ddp.nc_again.articles = ddp.nc_first.articles
  /\ ddp.pc = "fresh" =>
       /\ ddp.again.articles = NewOf(ddp.start, ddp.first)
       /\ ddp.nc_again.articles = ddp.nc_first.articles

(* the first pass started with sets an earlier feed left, accepted two     *)
(* candidates and dropped a third, and the second pass is over             *)
C19_Witness ==
  /\ ddp.pc = "twice"
  /\ ddp.start # EmptyAcc
  /\ Len(NewOf(ddp.start, ddp.first)) = 2
  /\ Len(ddp.nc_first.articles) = 2
  /\ Len(ddp.candidates) = 3

(***************************************************************************)
(* Properties of the GET handler (SpecGet)                                 *)
(***************************************************************************)

Heads == SelectSeq(http.sent, LAMBDA m : m.kind = "head")

Bodies == SelectSeq(http.sent, LAMBDA m : m.kind = "body")

(* C20: when do_GET returns, exactly one response went out: status 200     *)
(* with the metadata and the articles when nothing raised, status 500 with *)
(* {error: message} when crawl_news or the assembly of the response        *)
(* raised; unavailable sources alone give no 500.                          *)
C20_OneResponse ==
  http.pc = "end" =>
    /\ Len(Heads) = 1 /\ Len(Bodies) = 1
    /\ http.sent[1].kind = "head"
    /\ http.exc = "none" =>
         /\ Heads[1].status = 200
         /\ Bodies[1].json = JsonOfResult(result)
         /\ result.returned
    /\ http.exc # "none" =>
         /\ Heads[1].status = 500
         /\ Bodies[1].json = JsonOfError(http.exc)
    /\ Heads[1].status = 500 => http.exc # "none"

(***************************************************************************)
(* Properties of the seen sets of crawl_news (Spec)                        *)
(***************************************************************************)

UrlsOf(list) == {list[i].url : i \in DOMAIN list}

TitlesOf(list) == {normalize_title(list[i].title) : i \in DOMAIN list}

(* C22: the seen sets are the urls and the normalised titles of the        *)
(* accumulated articles; they change together and only when an article is  *)
(* appended; a candidate that is new in both and relevant is accepted,     *)
(* whatever was discarded before it.                                       *)
C22_SeenSetsMatch ==
  /\ [](seen_urls = UrlsOf(articles) /\ seen_titles = TitlesOf(articles))
  /\ [][IF articles' # articles
        THEN /\ Len(articles') = Len(articles) + 1
             /\ SubSeq(articles', 1, Len(articles)) = articles
             /\ seen_urls' = seen_urls \cup {articles'[Len(articles')].url}
             /\ seen_titles' = seen_titles \cup {normalize_title(articles'[Len(articles')].title)}
             /\ seen_urls' # seen_urls /\ seen_titles' # seen_titles
        ELSE UNCHANGED <<seen_urls, seen_titles>>]_vars
  /\ [][(/\ pc = "items" /\ items # <<>>
         /\ Head(items).link \notin UrlsOf(articles)
         /\ normalize_title(Head(items).title) \notin TitlesOf(articles)
         /\ is_relevant(Head(items).title, Head(items).description))
          => /\ Len(articles') = Len(articles) + 1
             /\ articles'[Len(articles')].url = Head(items).link]_vars

(* after A = (u1, t1) was accepted, B = (u1, t2) has just been discarded   *)
(* and a relevant C = (u2, t2) is next                                     *)
C22_Witness ==
  /\ pc = "items"
  /\ item # NoItem
  /\ Len(articles) = 1
  /\ item.link = articles[1].url
  /\ normalize_title(item.title) # normalize_title(articles[1].title)
  /\ items # <<>>
  /\ Head(items).link # item.link
  /\ normalize_title(Head(items).title) = normalize_title(item.title)
  /\ is_relevant(Head(items).title, Head(items).description)

(***************************************************************************)
(* Properties of the seen sets of NewsCrawler (SpecDedup)                  *)
(***************************************************************************)

(* C23: NewsCrawler records a candidate only when it accepts it: the seen  *)
(* sets are the urls and normalised titles of the accepted candidates, and *)
(* every relevant candidate is accepted or shares its url or normalised    *)
(* title with an accepted one.                                             *)
C23_RecordedOnlyWhenAccepted ==
  ddp.pc # "start" =>
    LET accepted == ddp.nc_run.articles
    IN  /\ ddp.nc_run.seen_urls = {accepted[i].link : i \in DOMAIN accepted}
        /\ ddp.nc_run.seen_titles = TitlesOf(accepted)
        /\ \A k \in DOMAIN ddp.candidates :
             NC_is_relevant(ddp.candidates[k].title, ddp.candidates[k].description)
               => \E i \in DOMAIN accepted :
                     \/ accepted[i].link = ddp.candidates[k].link
                     \/ normalize_title(accepted[i].title) = normalize_title(ddp.candidates[k].title)

(***************************************************************************)
(* Properties of the merge in any order (SpecMerge)                        *)
(***************************************************************************)

MergeCandidates == UNION {Range(ddp.feeds[i]) : i \in DOMAIN ddp.feeds}

MergeRelevant == {c \in MergeCandidates : is_relevant(c.title, c.description)}

(* no candidate of another url has the normalised title of a relevant      *)
(* candidate of url u                                                      *)
TitlesOwnedBy(u) ==
  \A c \in MergeRelevant : \A d \in MergeCandidates :
     (c.link = u /\ d.link # u) => normalize_title(c.title) # normalize_title(d.title)

MergeOver == ddp.pc = "merge" /\ \A i \in DOMAIN ddp.left : ddp.left[i] = <<>>

(* C24: in whatever order the candidates were merged, of the relevant      *)
(* candidates of one url whose titles collide with no candidate of another *)
(* url exactly one is accepted.                                            *)
C24_ExactlyOnePerUrl ==
  MergeOver =>
    \A c \in MergeRelevant :
       TitlesOwnedBy(c.link)
         => Cardinality({k \in DOMAIN ddp.acc.articles : ddp.acc.articles[k].url = c.link}) = 1

(* two relevant candidates of one url came from different sources, and the *)
(* one of the second source was merged first and kept                      *)
C24_Witness ==
  /\ MergeOver
  /\ \E c \in Range(ddp.feeds[1]) \cap MergeRelevant :
       \E d \in Range(ddp.feeds[2]) \cap MergeRelevant :
          /\ c.link = d.link /\ c.title # d.title
          /\ TitlesOwnedBy(c.link)
          /\ \E k \in DOMAIN ddp.acc.articles :
               ddp.acc.articles[k].url = d.link /\ ddp.acc.articles[k].title = d.title

(***************************************************************************)
(* Properties of the order of deduplication and recency filter (Spec)      *)
(***************************************************************************)

(* C25: a candidate with the url or the normalised title of an accumulated *)
(* article is discarded whatever the age of that article; the recency      *)
(* filter runs once, after the last source, over the accumulated list, so  *)
(* what it returns are accumulated articles only.                          *)
C25_DedupBeforeFilter ==
  /\ [][(/\ pc = "items" /\ items # <<>>
         /\ \/ Head(items).link \in UrlsOf(articles)
            \/ normalize_title(Head(items).title) \in TitlesOf(articles))
          => articles' = articles]_vars
  /\ [](result.returned <=> pc = "done")
  /\ [](pc = "done" =>
          /\ source_i > NumSources /\ items = <<>>
          /\ Range(result.articles) \subseteq Range(articles)
          /\ \A a \in Range(articles) : a \in Range(result.articles) <=> is_recent_enough(a, now))

(* the candidate looked at last was relevant and inside its window, and it *)
(* was discarded for the title of an article that the filter then removed: *)
(* the output has neither                                                  *)
C25_Witness ==
  /\ pc = "done"
  /\ item # NoItem
  /\ is_relevant(item.title, item.description)
  /\ is_recent_enough(NewArticle(item, SourceLabels[NumSources]), now)
  /\ item.link \notin UrlsOf(articles)
  /\ \E a \in Range(articles) :
       /\ normalize_title(a.title) = normalize_title(item.title)
       /\ ~is_recent_enough(a, now)
  /\ \A r \in Range(result.articles) :
       r.url # item.link /\ normalize_title(r.title) # normalize_title(item.title)

(***************************************************************************)
(* Properties of the articles between construction and output (Spec)       *)
(***************************************************************************)

Count(list, a) == Cardinality({i \in DOMAIN list : list[i] = a})

(* C26: an accumulated article never changes; every returned article is an *)
(* accumulated one, field for field, its id is the fingerprint of its url, *)
(* and it is returned no more often than it was accumulated.               *)
C26_OnlyRemoveAndReorder ==
  /\ [][/\ Len(articles') >= Len(articles)
        /\ \A i \in DOMAIN articles : articles'[i] = articles[i]
        /\ \A i \in DOMAIN articles' \ DOMAIN articles :
             /\ articles'[i] = NewArticle(Head(items), SourceLabels[source_i])
             /\ DOMAIN articles'[i] = {"id", "title", "url", "source", "published", "summary"}]_vars
  /\ [](pc = "done" =>
          \A r \in Range(result.articles) :
             /\ r \in Range(articles)
             /\ r.id = generate_id(r.url)
             /\ Count(result.articles, r) <= Count(articles, r))

(* two accumulated articles were returned in the other order and a third   *)
(* was removed                                                             *)
C26_Witness ==
  /\ pc = "done"
  /\ Len(articles) = 3
  /\ Len(result.articles) = 2
  /\ \E i, j \in DOMAIN articles :
       i < j /\ result.articles[1] = articles[j] /\ result.articles[2] = articles[i]

(***************************************************************************)
(* Properties of the order among equal sort keys (SpecStable)              *)
(***************************************************************************)

Pos(list, a) == CHOOSE i \in DOMAIN list : list[i] = a

(* the first source with the label *)
FirstSource(label) ==
  CHOOSE k \in DOMAIN SourceLabels :
     SourceLabels[k] = label /\ \A m \in DOMAIN SourceLabels : SourceLabels[m] = label => k <= m

(* C27: returned articles with the same sort key, the unparseable dates    *)
(* among them, stand in the order in which they were accepted, which is    *)
(* the order of the sources and, within a source, of the feed.             *)
C27_StableSort ==
  /\ [][articles' # articles =>
          /\ SubSeq(articles', 1, Len(articles)) = articles
          /\ articles'[Len(articles')].source = SourceLabels[source_i]
          /\ articles'[Len(articles')].url = Head(items).link]_vars
  /\ [](\A i, j \in DOMAIN articles :
          i < j => FirstSource(articles[i].source) <= FirstSource(articles[j].source))
  /\ [](pc = "done" =>
          \A i, j \in DOMAIN result.articles :
             (i < j /\ get_sort_date(result.articles[i]) = get_sort_date(result.articles[j]))
               => Pos(articles, result.articles[i]) < Pos(articles, result.articles[j]))

(* two articles of one instant in different formats and two articles with  *)
(* unparseable dates were returned, each pair in the order of acceptance,  *)
(* the list as a whole in another order                                    *)
C27_Witness ==
  /\ pc = "done"
  /\ Len(result.articles) = 4
  /\ Parsed(result.articles[1]).ok /\ Parsed(result.articles[2]).ok
  /\ Parsed(result.articles[1]).t = Parsed(result.articles[2]).t
  /\ result.articles[1].published # result.articles[2].published
  /\ ~Parsed(result.articles[3]).ok /\ ~Parsed(result.articles[4]).ok
  /\ result.articles # articles
  /\ result.articles[1].source # result.articles[2].source

(***************************************************************************)
(* Properties of the progress of a run (SpecLive)                          *)
(***************************************************************************)

(* C28: the sources are taken one by one in list order, each fetched once, *)
(* the search terms before the local feeds, and whatever the fetches       *)
(* return the run reaches the filter and the sort and returns a result.    *)
C28_EverySourceOnceThenResult ==
  /\ [][/\ (pc = "fetch" /\ source_i <= NumSources)
             => \/ pc' = "items" /\ source_i' = source_i /\ content' = "text"
                \/ pc' = "fetch" /\ source_i' = source_i + 1 /\ content' \in {"unavailable", "empty"}
        /\ pc = "items"
             => \/ pc' = "items" /\ source_i' = source_i
                \/ pc' = "fetch" /\ source_i' = source_i + 1 /\ items = <<>>
        /\ (pc = "fetch" /\ source_i > NumSources) => pc' = "done"
        /\ pc # "fetch" => content' = content]_vars
  /\ [](source_i \in 1..(NumSources + 1))
  /\ [](pc \in {"fetch", "items", "done"})
  /\ \A i, j \in DOMAIN SourceLabels :
       (i < j /\ SourceLabels[j] = "Google News") => SourceLabels[i] = "Google News"
  /\ <>[](pc = "done" /\ result.returned /\ source_i = NumSources + 1)

(* the run returned articles although its last source was unavailable *)
C28_Witness ==
  /\ pc = "done"
  /\ result.returned
  /\ content \in {"unavailable", "empty"}
  /\ Len(result.articles) >= 1

(***************************************************************************)
(* Properties of the timezone suffixes (SpecRec)                           *)
(***************************************************************************)

(* nothing, a trailing abbreviation, a trailing numeric offset, or an      *)
(* offset followed by an abbreviation                                      *)
RemovableSuffixes ==
  {<<>>} \cup {<<z>> : z \in TZ_ABBREVS} \cup {<<o>> : o \in NumericOffsets}
    \cup {<<o, z>> : o \in NumericOffsets, z \in TZ_ABBREVS}

WithSuffix(article, s) == [article EXCEPT !.published.suffix = s]

Undated(seq) == {i \in 1..Len(seq) : seq[i].published = EMPTY_PUB}

MentionsRedCross(a) == Contains(Lower(a.title \o <<" ">> \o a.summary), RED_CROSS)

(* C30: an article whose published string is empty is never among the      *)
(* articles crawl_news returns, whether or not it mentions the Red Cross,   *)
(* and it is counted in total_crawled: total_crawled is the number of       *)
(* collected articles, the undated ones included, so it exceeds             *)
(* total_articles by at least their number.                                 *)
C30_UndatedNeverReturned ==
  (pc = "done" /\ result.returned) =>
    /\ Undated(result.articles) = {}
    /\ result.metadata.total_crawled = Len(articles)
    /\ result.metadata.total_crawled - result.metadata.total_articles >= Cardinality(Undated(articles))

C30_Witness ==
  /\ pc = "done" /\ result.returned
  /\ \E i \in Undated(articles) : MentionsRedCross(articles[i])
  /\ \E i \in Undated(articles) : ~MentionsRedCross(articles[i])
  /\ result.metadata.total_articles >= 1
  /\ result.metadata.total_crawled >= 3
(***************************************************************************)
(* The summary handler (SpecPost)                                          *)
(***************************************************************************)

(* the handler is through with a request whose body is JSON, and there was *)
(* no key or call_claude returned None                                     *)
AnsweredWithoutLLM ==
  /\ http.pc \in {"end", "raised"}
  /\ post.content_length = "length"
  /\ post.body.type # "malformed"
  /\ \/ post.ANTHROPIC_API_KEY = ""
     \/ post.called /\ post.answer.type \in {"raises", "null"}

(* C21: for every POST whose body is well-formed JSON, when no API key is   *)
(* configured or call_claude returns None, the handler answers with status  *)
(* 200 and the fallback summary of the supplied articles extended with      *)
(* generated_at and article_count, and with nothing else: no 500 goes out.  *)
C21_FallbackWhenNoLLM ==
  AnsweredWithoutLLM =>
    /\ Len(http.sent) = 2
    /\ http.sent[1] = PostHead200
    /\ http.sent[2] = Body(Extended(generate_fallback_summary(post.articles), post.t_now,
                                    Len(post.articles.elems)))

====
